---- MODULE Spec2Model ----
(***************************************************************************)
(* A model of the terminal-emulation core of ratty (src/src/pane): the VT  *)
(* parser and interpreter (terminal.rs), the screen and scrollback buffers *)
(* (buffer.rs), the cursor (cursor.rs), the modes and tab stops (mod.rs)   *)
(* and the Pane orchestrator (mod.rs, interface.rs), together with the     *)
(* pane's event handler (events.rs), scrollback search (buffer.rs) and PTY *)
(* (pty.rs), the window registry of the frame (src/src/frame) and the tab  *)
(* manager of the sash (src/src/sash/tabs.rs).                             *)
(*                                                                         *)
(* Bytes and characters are their numeric codes.  Wall-clock fields        *)
(* (Line.timestamp, the Instant fields of PaneStatistics and BlinkState)   *)
(* are left out: nothing modelled here reads them.                         *)
(***************************************************************************)
EXTENDS Integers, Sequences, FiniteSets, TLC

\* ------------------------------------------------------------------ bounds

\* Calls (process_output / resize) made on the small pane in one behaviour.
MaxCalls == 2
\* Largest number of rows / columns of the small pane.
MaxRows == 2
MaxCols == 3
\* Calls of Terminal::process_bytes on the stand-alone terminal.
MaxTermCalls == 3
\* Calls of process_output on the default-sized pane.
MaxDefaultCalls == 3
\* Largest capacity of the stand-alone scrollback, and calls made on it.
MaxScrollback == 2
MaxScrollCalls == 4
\* Calls made on the screen buffer of the small pane, directly or through it.
MaxScreenCalls == 3
MaxFeedCalls == 4
MaxConfigCalls == 3
MaxTabCols == 17
MaxTabCalls == 4
\* calls made on the stand-alone event handler
MaxEventCalls == 3
\* calls made on the searched scrollback
MaxSearchCalls == 3
\* windows a frame creates, and calls made on the frame
MaxWindows == 3
MaxFrameCalls == 5
\* calls made on the pane that spawns a process
MaxPtyCalls == 3
\* calls made on the pane whose cursor is saved and restored
MaxCursorCalls == 5
\* calls made on the pane fed large parameter values
MaxSgrCalls == 3
\* tabs a tab manager is given, and calls made on it
MaxTabs == 3
MaxTabManagerCalls == 4

\* ------------------------------------------------------------- byte values

\* The byte literals the parser matches on, and two sample printable bytes.
Ascii ==
    [ BEL |-> 7, BS |-> 8, HT |-> 9, LF |-> 10, CR |-> 13, ESC |-> 27,
      SP |-> 32, ZERO |-> 48, NINE |-> 57, SEMI |-> 59,
      LBRACKET |-> 91, BACKSLASH |-> 92, RBRACKET |-> 93,
      SEVEN |-> 55, EIGHT |-> 56,
      UA |-> 65, UB |-> 66, UC |-> 67, UD |-> 68, UH |-> 72, UJ |-> 74,
      UK |-> 75, UL |-> 76, UM |-> 77, UX |-> 88, UY |-> 89, UZ |-> 90,
      la |-> 97, lc |-> 99, lf |-> 102, lm |-> 109, lq |-> 113, lz |-> 122,
      DEL |-> 127, HIGH |-> 255 ]

\* Width of u16 / u8 and the largest i32.
U16Modulus == 65536
U8Modulus == 256
I32Max == 2147483647

\* `x as u16` and `x as u8` on a non-negative i32.
as_u16(x) == x % U16Modulus
as_u8(x) == x % U8Modulus

\* u16::saturating_sub
saturating_sub(a, b) == IF a >= b THEN a - b ELSE 0

Min(a, b) == IF a <= b THEN a ELSE b

\* Option::None for sequences and commands.
NoSequence == [kind |-> "None"]
NoCommand == [cmd |-> "None"]

\* ------------------------------------------------------------------ parser

\* VtParser::new
VtParser_new ==
    [state_machine |-> "Ground", current_sequence |-> <<>>, params |-> <<>>]

\* A parser step's result, PaneResult<Option<VtSequence>>: the parser
\* afterwards, the sequence, and the status "Ok", "Err" (an Err returned) or
\* "Panic".
ParserStep(p, s) == [parser |-> p, sequence |-> s, status |-> "Ok"]

\* str::split(';')
RECURSIVE split(_)
split(s) ==
    IF \A i \in 1..Len(s) : s[i] # Ascii.SEMI
    THEN <<s>>
    ELSE LET i == CHOOSE k \in 1..Len(s) :
                      /\ s[k] = Ascii.SEMI
                      /\ \A j \in 1..(k - 1) : s[j] # Ascii.SEMI
         IN  <<SubSeq(s, 1, i - 1)>> \o split(SubSeq(s, i + 1, Len(s)))

\* str::parse::<i32>() on a string of decimal digits: -1 stands for Err
\* (the empty string, or a value above i32::MAX).
RECURSIVE parse_digits(_, _)
parse_digits(s, acc) ==
    IF s = <<>> THEN acc
    ELSE LET d == Head(s) - Ascii.ZERO
         IN  IF acc > (I32Max - d) \div 10 THEN -1
             ELSE parse_digits(Tail(s), acc * 10 + d)

parse(s) == IF s = <<>> THEN -1 ELSE parse_digits(s, 0)

\* One field of the parameter string: empty gives 0, else parse().unwrap_or(0).
param_value(field) ==
    IF field = <<>> THEN 0
    ELSE IF parse(field) = -1 THEN 0 ELSE parse(field)

\* parse_parameters indexing its slice from one byte further on.
parse_parameters_status_late_start(p) ==
    IF Len(p.current_sequence) < 3 THEN "Ok"
    ELSE LET param_start == 3
             param_end == Len(p.current_sequence) - 1
         IN  IF param_start > param_end THEN "Panic"
             ELSE IF \E i \in (param_start + 1)..param_end :
                        p.current_sequence[i] >= 128
                  THEN "Err"
                  ELSE "Ok"

\* How VtParser::parse_parameters ends: the slice
\* current_sequence[param_start..param_end] panics when param_start exceeds
\* param_end, and from_utf8 on it gives Err(ParseError) unless it is valid
\* UTF-8, as every slice of ASCII bytes is.
parse_parameters_status(p) ==
    IF Len(p.current_sequence) < 3 THEN "Ok"
    ELSE LET param_start == 2
             param_end == Len(p.current_sequence) - 1
         IN  IF param_start > param_end THEN "Panic"
             ELSE IF \E i \in (param_start + 1)..param_end :
                        p.current_sequence[i] >= 128
                  THEN "Err"
                  ELSE "Ok"

\* VtParser::parse_parameters: runs after the parameter byte has been pushed
\* onto current_sequence; the slice it parses ends before the last byte.
parse_parameters(p) ==
    IF Len(p.current_sequence) < 3 \/ parse_parameters_status(p) # "Ok" THEN p
    ELSE LET param_start == 2
             param_end == Len(p.current_sequence) - 1
             param_str == SubSeq(p.current_sequence, param_start + 1, param_end)
             fields == split(param_str)
         IN  [p EXCEPT !.params =
                 IF param_str = <<>> THEN <<>>
                 ELSE [i \in 1..Len(fields) |-> param_value(fields[i])]]

\* params.first().copied().unwrap_or(d) / params.get(i).copied().unwrap_or(d)
param_or(params, i, d) == IF Len(params) >= i THEN params[i] ELSE d

clear_type_of(param) ==
    CASE param = 0 -> "ToEnd"
      [] param = 1 -> "ToBeginning"
      [] param = 2 -> "All"
      [] OTHER -> "All"

\* VtParser::build_csi_sequence
build_csi_sequence(p, final_byte) ==
    LET params == p.params
        csi_command ==
          CASE final_byte = Ascii.UA ->
                 [csi |-> "CursorUp", n |-> as_u16(param_or(params, 1, 1))]
            [] final_byte = Ascii.UB ->
                 [csi |-> "CursorDown", n |-> as_u16(param_or(params, 1, 1))]
            [] final_byte = Ascii.UC ->
                 [csi |-> "CursorForward", n |-> as_u16(param_or(params, 1, 1))]
            [] final_byte = Ascii.UD ->
                 [csi |-> "CursorBack", n |-> as_u16(param_or(params, 1, 1))]
            [] final_byte \in {Ascii.UH, Ascii.lf} ->
                 [csi |-> "CursorPosition",
                  row |-> as_u16(param_or(params, 1, 1)),
                  col |-> as_u16(param_or(params, 2, 1))]
            [] final_byte = Ascii.UJ ->
                 [csi |-> "ClearScreen",
                  clear_type |-> clear_type_of(param_or(params, 1, 0))]
            [] final_byte = Ascii.UK ->
                 [csi |-> "ClearLine",
                  clear_type |-> clear_type_of(param_or(params, 1, 0))]
            [] final_byte = Ascii.lm ->
                 [csi |-> "SetGraphicsRendition",
                  params |-> [i \in 1..Len(params) |-> as_u8(params[i])]]
            [] final_byte = Ascii.UL ->
                 [csi |-> "InsertLines", n |-> as_u16(param_or(params, 1, 1))]
            [] final_byte = Ascii.UM ->
                 [csi |-> "DeleteLines", n |-> as_u16(param_or(params, 1, 1))]
            [] OTHER ->
                 [csi |-> "Unknown", final_byte |-> final_byte, params |-> params]
    IN  [kind |-> "Csi", command |-> csi_command]

IsParamByte(byte) == (byte >= Ascii.ZERO /\ byte <= Ascii.NINE) \/ byte = Ascii.SEMI

IsFinalByte(byte) ==
    \/ (byte >= Ascii.UA /\ byte <= Ascii.UZ)
    \/ (byte >= Ascii.la /\ byte <= Ascii.lz)

\* VtParser::process_ground_state
process_ground_state(p, byte) ==
    CASE byte = Ascii.ESC ->
           ParserStep([p EXCEPT !.state_machine = "Escape",
                                !.current_sequence = <<byte>>], NoSequence)
      [] byte = Ascii.BS ->
           ParserStep(p, [kind |-> "Control", code |-> "Backspace"])
      [] byte = Ascii.HT ->
           ParserStep(p, [kind |-> "Control", code |-> "Tab"])
      [] byte = Ascii.LF ->
           ParserStep(p, [kind |-> "Control", code |-> "LineFeed"])
      [] byte = Ascii.CR ->
           ParserStep(p, [kind |-> "Control", code |-> "CarriageReturn"])
      [] byte = Ascii.BEL ->
           ParserStep(p, [kind |-> "Control", code |-> "Bell"])
      [] byte >= 32 /\ byte <= 126 ->
           ParserStep(p, [kind |-> "Character", ch |-> byte])
      [] byte >= 128 /\ byte <= 255 ->
           ParserStep(p, [kind |-> "Character", ch |-> byte])
      [] OTHER -> ParserStep(p, NoSequence)

\* VtParser::process_escape_state
process_escape_state(p, byte) ==
    LET q == [p EXCEPT !.current_sequence = Append(@, byte)]
        ground == [q EXCEPT !.state_machine = "Ground"]
    IN  CASE byte = Ascii.LBRACKET ->
               ParserStep([q EXCEPT !.state_machine = "CsiEntry"], NoSequence)
          [] byte = Ascii.RBRACKET ->
               ParserStep([q EXCEPT !.state_machine = "OscString"], NoSequence)
          [] byte = Ascii.UD ->
               ParserStep(ground, [kind |-> "Escape", esc |-> "Index"])
          [] byte = Ascii.UM ->
               ParserStep(ground, [kind |-> "Escape", esc |-> "ReverseIndex"])
          [] byte = Ascii.lc ->
               ParserStep(ground, [kind |-> "Escape", esc |-> "Reset"])
          [] byte = Ascii.SEVEN ->
               ParserStep(ground, [kind |-> "Escape", esc |-> "SaveCursor"])
          [] byte = Ascii.EIGHT ->
               ParserStep(ground, [kind |-> "Escape", esc |-> "RestoreCursor"])
          [] OTHER -> ParserStep(ground, NoSequence)

\* VtParser::process_csi_entry_state
process_csi_entry_state(p, byte) ==
    LET q == [p EXCEPT !.current_sequence = Append(@, byte)]
    IN  CASE IsParamByte(byte) ->
               [ParserStep(parse_parameters([q EXCEPT !.state_machine = "CsiParam"]),
                           NoSequence)
                  EXCEPT !.status = parse_parameters_status(q)]
          [] IsFinalByte(byte) ->
               ParserStep([q EXCEPT !.state_machine = "Ground"],
                          build_csi_sequence(q, byte))
          [] OTHER ->
               ParserStep([q EXCEPT !.state_machine = "Ground"], NoSequence)

\* VtParser::process_csi_param_state
process_csi_param_state(p, byte) ==
    LET q == [p EXCEPT !.current_sequence = Append(@, byte)]
    IN  CASE IsParamByte(byte) ->
               [ParserStep(parse_parameters(q), NoSequence)
                  EXCEPT !.status = parse_parameters_status(q)]
          [] IsFinalByte(byte) ->
               ParserStep([q EXCEPT !.state_machine = "Ground"],
                          build_csi_sequence(q, byte))
          [] OTHER ->
               ParserStep([q EXCEPT !.state_machine = "Ground"], NoSequence)

\* VtParser::process_csi_intermediate_state
process_csi_intermediate_state(p, byte) ==
    ParserStep([p EXCEPT !.current_sequence = Append(@, byte),
                         !.state_machine = "Ground"], NoSequence)

\* process_osc_string_state ending the string at any backslash.
process_osc_string_state_any_backslash(p, byte) ==
    LET q == [p EXCEPT !.current_sequence = Append(@, byte)]
    IN  IF byte = Ascii.BEL \/ byte = Ascii.BACKSLASH
        THEN ParserStep([q EXCEPT !.state_machine = "Ground"], NoSequence)
        ELSE ParserStep(q, NoSequence)

\* VtParser::process_osc_string_state
process_osc_string_state(p, byte) ==
    LET q == [p EXCEPT !.current_sequence = Append(@, byte)]
        n == Len(q.current_sequence)
    IN  IF \/ byte = Ascii.BEL
           \/ (n >= 2 /\ q.current_sequence[n - 1] = Ascii.ESC
                      /\ byte = Ascii.BACKSLASH)
        THEN ParserStep([q EXCEPT !.state_machine = "Ground"], NoSequence)
        ELSE ParserStep(q, NoSequence)

\* VtParser::process_byte
VtParser_process_byte(p, byte) ==
    CASE p.state_machine = "Ground" -> process_ground_state(p, byte)
      [] p.state_machine = "Escape" -> process_escape_state(p, byte)
      [] p.state_machine = "CsiEntry" -> process_csi_entry_state(p, byte)
      [] p.state_machine = "CsiParam" -> process_csi_param_state(p, byte)
      [] p.state_machine = "CsiIntermediate" ->
           process_csi_intermediate_state(p, byte)
      [] p.state_machine = "OscString" -> process_osc_string_state(p, byte)

\* ------------------------------------------------------------- interpreter

\* VtInterpreter::interpret_control
interpret_control(code) == [cmd |-> code]

\* interpret_escape taking ESC D for a line feed, which scrolls on the bottom
\* row.
interpret_escape_index_scrolls(esc) ==
    CASE esc = "Index" -> [cmd |-> "LineFeed"]
      [] esc = "ReverseIndex" -> [cmd |-> "CursorUp", n |-> 1]
      [] esc = "Reset" -> [cmd |-> "Reset"]
      [] esc = "SaveCursor" -> [cmd |-> "SaveCursor"]
      [] esc = "RestoreCursor" -> [cmd |-> "RestoreCursor"]

\* VtInterpreter::interpret_escape
interpret_escape(esc) ==
    CASE esc = "Index" -> [cmd |-> "CursorDown", n |-> 1]
      [] esc = "ReverseIndex" -> [cmd |-> "CursorUp", n |-> 1]
      [] esc = "Reset" -> [cmd |-> "Reset"]
      [] esc = "SaveCursor" -> [cmd |-> "SaveCursor"]
      [] esc = "RestoreCursor" -> [cmd |-> "RestoreCursor"]

\* VtInterpreter::interpret_csi
interpret_csi(c) ==
    CASE c.csi \in {"CursorUp", "CursorDown", "CursorForward", "CursorBack",
                    "InsertLines", "DeleteLines"} ->
           [cmd |-> c.csi, n |-> c.n]
      [] c.csi = "CursorPosition" ->
           [cmd |-> "CursorPosition", row |-> c.row, col |-> c.col]
      [] c.csi \in {"ClearScreen", "ClearLine"} ->
           [cmd |-> c.csi, clear_type |-> c.clear_type]
      [] c.csi = "SetGraphicsRendition" ->
           [cmd |-> "SetGraphicsRendition", params |-> c.params]
      [] c.csi = "Unknown" -> NoCommand

\* VtInterpreter::interpret
interpret(sequence) ==
    CASE sequence.kind = "Character" -> [cmd |-> "PrintChar", ch |-> sequence.ch]
      [] sequence.kind = "Control" -> interpret_control(sequence.code)
      [] sequence.kind = "Escape" -> interpret_escape(sequence.esc)
      [] sequence.kind = "Csi" -> interpret_csi(sequence.command)
      [] sequence.kind = "Osc" -> NoCommand

\* ---------------------------------------------------------------- terminal

\* Terminal::new
Terminal_new == [parser |-> VtParser_new, current_mode |-> "Normal"]

\* Terminal::process_byte, PaneResult<Option<VtCommand>>: the terminal
\* afterwards, the command, and the status the parser's `?` passes on.
Terminal_process_byte(t, byte) ==
    LET r == VtParser_process_byte(t.parser, byte)
    IN  [terminal |-> [t EXCEPT !.parser = r.parser],
         command |-> IF r.status # "Ok" \/ r.sequence.kind = "None" THEN NoCommand
                     ELSE interpret(r.sequence),
         status |-> r.status]

\* process_bytes leaving a new parser behind at the end of the chunk, so that
\* a sequence cut by the chunk boundary is lost.
RECURSIVE Terminal_process_bytes_forgets(_, _)
Terminal_process_bytes_forgets(t, bytes) ==
    IF bytes = <<>>
    THEN [terminal |-> [t EXCEPT !.parser = VtParser_new], commands |-> <<>>,
          status |-> "Ok"]
    ELSE CHOOSE out \in
           { IF r.status # "Ok"
             THEN [terminal |-> r.terminal, commands |-> <<>>, status |-> r.status]
             ELSE CHOOSE pushed \in
               { [terminal |-> rest.terminal,
                  commands |-> IF rest.status # "Ok" THEN <<>>
                               ELSE IF r.command.cmd = "None" THEN rest.commands
                               ELSE <<r.command>> \o rest.commands,
                  status |-> rest.status]
                 : rest \in {Terminal_process_bytes_forgets(r.terminal, Tail(bytes))} } : TRUE
             : r \in {Terminal_process_byte(t, Head(bytes))} } : TRUE

\* Terminal::process_bytes, PaneResult<Vec<VtCommand>>: the terminal
\* afterwards, the commands and the status; a byte that fails ends the call
\* and the commands collected so far are dropped with it.
\* Each step's result is bound once (r, rest), as the loop's locals are.
RECURSIVE Terminal_process_bytes(_, _)
Terminal_process_bytes(t, bytes) ==
    IF bytes = <<>> THEN [terminal |-> t, commands |-> <<>>, status |-> "Ok"]
    ELSE CHOOSE out \in
           { IF r.status # "Ok"
             THEN [terminal |-> r.terminal, commands |-> <<>>, status |-> r.status]
             ELSE CHOOSE pushed \in
               { [terminal |-> rest.terminal,
                  commands |-> IF rest.status # "Ok" THEN <<>>
                               ELSE IF r.command.cmd = "None" THEN rest.commands
                               ELSE <<r.command>> \o rest.commands,
                  status |-> rest.status]
                 : rest \in {Terminal_process_bytes(r.terminal, Tail(bytes))} } : TRUE
             : r \in {Terminal_process_byte(t, Head(bytes))} } : TRUE

\* ------------------------------------------------------------------- cells

\* CellAttributes::default
CellAttributes_default ==
    [bold |-> FALSE, dim |-> FALSE, italic |-> FALSE, underline |-> "None",
     strikethrough |-> FALSE, reverse |-> FALSE, blink |-> "None",
     invisible |-> FALSE]

\* Cell::default: a space, default attributes, white on black.
Cell_default ==
    [character |-> Ascii.SP, attributes |-> CellAttributes_default,
     foreground |-> <<255, 255, 255>>, background |-> <<0, 0, 0>>]

\* Line::new
Line_new(width) ==
    [cells |-> [i \in 1..width |-> Cell_default], wrapped |-> FALSE,
     dirty |-> TRUE]

\* Line::resize refilling a line whose width changes with default cells.
Line_resize_blank(line, new_width) ==
    IF new_width # Len(line.cells)
    THEN [line EXCEPT !.cells = [i \in 1..new_width |-> Cell_default],
                      !.dirty = TRUE]
    ELSE line

\* Line::resize: Vec::resize keeps the cells on the left.
Line_resize(line, new_width) ==
    LET old_len == Len(line.cells)
    IN  [line EXCEPT
           !.cells = [i \in 1..new_width |->
                         IF i <= old_len THEN line.cells[i] ELSE Cell_default],
           !.dirty = IF new_width # old_len THEN TRUE ELSE @]

\* write_char storing the character without the attributes.
Line_write_char_plain(line, col, ch, attrs) ==
    IF col < Len(line.cells)
    THEN [line EXCEPT !.cells[col + 1].character = ch,
                      !.dirty = TRUE]
    ELSE line

\* Line::write_char (col is zero-based)
Line_write_char(line, col, ch, attrs) ==
    IF col < Len(line.cells)
    THEN [line EXCEPT !.cells[col + 1].character = ch,
                      !.cells[col + 1].attributes = attrs,
                      !.dirty = TRUE]
    ELSE line

\* Line::clear
Line_clear(line) ==
    [line EXCEPT !.cells = [i \in 1..Len(line.cells) |-> Cell_default],
                 !.dirty = TRUE]

\* Line::clear_from: cells.get_mut(from_col..) is None past the end.
Line_clear_from(line, from_col) ==
    IF from_col <= Len(line.cells)
    THEN [line EXCEPT
            !.cells = [i \in 1..Len(line.cells) |->
                          IF i > from_col THEN Cell_default ELSE line.cells[i]],
            !.dirty = TRUE]
    ELSE line

\* Line::clear_to (inclusive of to_col)
Line_clear_to(line, to_col) ==
    LET end_idx == Min(to_col + 1, Len(line.cells))
    IN  [line EXCEPT
           !.cells = [i \in 1..Len(line.cells) |->
                         IF i <= end_idx THEN Cell_default ELSE line.cells[i]],
           !.dirty = TRUE]

\* Line::is_empty / Cell::is_default
Line_is_empty(line) == \A i \in 1..Len(line.cells) : line.cells[i] = Cell_default

\* ----------------------------------------------------------- dirty tracker

\* DirtyTracker::new
DirtyTracker_new(width, height) ==
    [width |-> width, height |-> height,
     dirty_lines |-> [i \in 1..height |-> FALSE], all_dirty |-> TRUE]

\* DirtyTracker::mark_cell_dirty / mark_line_dirty (row is zero-based)
mark_line_dirty(d, row) ==
    IF row < Len(d.dirty_lines)
    THEN [d EXCEPT !.dirty_lines[row + 1] = TRUE]
    ELSE d

\* DirtyTracker::mark_all_dirty
DirtyTracker_mark_all_dirty(d) ==
    [d EXCEPT !.all_dirty = TRUE,
              !.dirty_lines = [i \in 1..Len(d.dirty_lines) |-> TRUE]]

\* DirtyTracker::is_line_dirty
is_line_dirty(d, row) ==
    d.all_dirty \/ (row < Len(d.dirty_lines) /\ d.dirty_lines[row + 1])

\* ----------------------------------------------------------- screen buffer

\* ScreenBuffer::new
ScreenBuffer_new(width, height) ==
    [lines |-> [i \in 1..height |-> Line_new(width)],
     width |-> width, height |-> height,
     dirty_regions |-> DirtyTracker_new(width, height)]

\* ScreenBuffer::mark_all_dirty
mark_all_dirty(sb) ==
    [sb EXCEPT !.dirty_regions = DirtyTracker_mark_all_dirty(@)]

\* ScreenBuffer::resize without the pass that resizes the lines it keeps.
ScreenBuffer_resize_keeps_widths(sb, new_width, new_height) ==
    LET old_height == sb.height
        kept ==
          IF new_height > old_height
          THEN sb.lines \o [i \in 1..(new_height - old_height) |-> Line_new(new_width)]
          ELSE IF new_height < old_height
               THEN SubSeq(sb.lines, 1, Min(new_height, Len(sb.lines)))
               ELSE sb.lines
    IN  mark_all_dirty(
          [lines |-> kept, width |-> new_width, height |-> new_height,
           dirty_regions |-> DirtyTracker_new(new_width, new_height)])

\* ScreenBuffer::resize
ScreenBuffer_resize(sb, new_width, new_height) ==
    LET old_height == sb.height
        kept ==
          IF new_height > old_height
          THEN sb.lines \o [i \in 1..(new_height - old_height) |-> Line_new(new_width)]
          ELSE IF new_height < old_height
               THEN SubSeq(sb.lines, 1, Min(new_height, Len(sb.lines)))
               ELSE sb.lines
        resized == [i \in 1..Len(kept) |-> Line_resize(kept[i], new_width)]
    IN  mark_all_dirty(
          [lines |-> resized, width |-> new_width, height |-> new_height,
           dirty_regions |-> DirtyTracker_new(new_width, new_height)])

\* ScreenBuffer::write_char_at: Err(InvalidCursorPosition) when the row is
\* outside the screen, a silent no-op when only the column is.
write_char_at(sb, row, col, ch, attrs) ==
    IF row >= sb.height
    THEN [ok |-> FALSE, screen |-> sb]
    ELSE IF col < sb.width
         THEN [ok |-> TRUE,
               screen |->
                 [sb EXCEPT
                    !.lines[row + 1] = Line_write_char(@, col, ch, attrs),
                    !.dirty_regions = mark_line_dirty(@, row)]]
         ELSE [ok |-> TRUE, screen |-> sb]

\* ScreenBuffer::write_char_at_cursor
write_char_at_cursor(sb, ch, cursor, modes) ==
    write_char_at(sb, cursor.position.row, cursor.position.col, ch,
                  modes.current_attributes)

\* Cursor::set_position (1-based coordinates, clamped to the screen)
set_position(cursor, row, col, screen) ==
    LET zero_row == saturating_sub(row, 1)
        zero_col == saturating_sub(col, 1)
    IN  [cursor EXCEPT
           !.position.row = Min(zero_row, saturating_sub(screen.height, 1)),
           !.position.col = Min(zero_col, saturating_sub(screen.width, 1))]

\* clear_screen whose All clears from the cursor only, as ToEnd does, before
\* it homes the cursor.
clear_screen_all_from_cursor(sb, clear_type, cursor) ==
    LET cursor_row == cursor.position.row
        cursor_col == cursor.position.col
        n == Len(sb.lines)
        from_cursor ==
           [sb EXCEPT !.lines = [i \in 1..n |->
              IF i = cursor_row + 1
              THEN Line_clear_from(sb.lines[i], cursor_col)
              ELSE IF i > cursor_row + 1 THEN Line_clear(sb.lines[i])
              ELSE sb.lines[i]]]
    IN  CASE clear_type = "All" ->
               [status |-> "Ok", screen |-> mark_all_dirty(from_cursor),
                cursor |-> set_position(cursor, 0, 0, from_cursor)]
          [] clear_type = "ToEnd" ->
               IF cursor_row + 1 > n
               THEN [status |-> "Panic", screen |-> sb, cursor |-> cursor]
               ELSE [status |-> "Ok", screen |-> mark_all_dirty(from_cursor),
                     cursor |-> cursor]
          [] clear_type = "ToBeginning" ->
               IF cursor_row > n
               THEN [status |-> "Panic", screen |-> sb, cursor |-> cursor]
               ELSE [status |-> "Ok",
                     screen |-> mark_all_dirty(
                       [sb EXCEPT !.lines = [i \in 1..n |->
                          IF i < cursor_row + 1 THEN Line_clear(sb.lines[i])
                          ELSE IF i = cursor_row + 1
                          THEN Line_clear_to(sb.lines[i], cursor_col)
                          ELSE sb.lines[i]]]),
                     cursor |-> cursor]

\* clear_screen whose All clears every line but leaves the cursor where it is.
clear_screen_keeps_cursor(sb, clear_type, cursor) ==
    LET cursor_row == cursor.position.row
        cursor_col == cursor.position.col
        n == Len(sb.lines)
    IN  CASE clear_type = "All" ->
               [status |-> "Ok",
                screen |-> mark_all_dirty(
                  [sb EXCEPT !.lines = [i \in 1..n |-> Line_clear(sb.lines[i])]]),
                cursor |-> cursor]
          [] clear_type = "ToEnd" ->
               IF cursor_row + 1 > n
               THEN [status |-> "Panic", screen |-> sb, cursor |-> cursor]
               ELSE [status |-> "Ok",
                     screen |-> mark_all_dirty(
                       [sb EXCEPT !.lines = [i \in 1..n |->
                          IF i = cursor_row + 1
                          THEN Line_clear_from(sb.lines[i], cursor_col)
                          ELSE IF i > cursor_row + 1 THEN Line_clear(sb.lines[i])
                          ELSE sb.lines[i]]]),
                     cursor |-> cursor]
          [] clear_type = "ToBeginning" ->
               IF cursor_row > n
               THEN [status |-> "Panic", screen |-> sb, cursor |-> cursor]
               ELSE [status |-> "Ok",
                     screen |-> mark_all_dirty(
                       [sb EXCEPT !.lines = [i \in 1..n |->
                          IF i < cursor_row + 1 THEN Line_clear(sb.lines[i])
                          ELSE IF i = cursor_row + 1
                          THEN Line_clear_to(sb.lines[i], cursor_col)
                          ELSE sb.lines[i]]]),
                     cursor |-> cursor]

\* ScreenBuffer::clear_screen: status "Panic" is the slice-index panic of
\* lines[(cursor_row + 1)..] / lines[..cursor_row] for a cursor below the
\* last line.
clear_screen(sb, clear_type, cursor) ==
    LET cursor_row == cursor.position.row
        cursor_col == cursor.position.col
        n == Len(sb.lines)
    IN  CASE clear_type = "All" ->
               LET cleared == [sb EXCEPT !.lines = [i \in 1..n |-> Line_clear(sb.lines[i])]]
               IN  [status |-> "Ok", screen |-> mark_all_dirty(cleared),
                    cursor |-> set_position(cursor, 0, 0, cleared)]
          [] clear_type = "ToEnd" ->
               IF cursor_row + 1 > n
               THEN [status |-> "Panic", screen |-> sb, cursor |-> cursor]
               ELSE [status |-> "Ok",
                     screen |-> mark_all_dirty(
                       [sb EXCEPT !.lines = [i \in 1..n |->
                          IF i = cursor_row + 1
                          THEN Line_clear_from(sb.lines[i], cursor_col)
                          ELSE IF i > cursor_row + 1 THEN Line_clear(sb.lines[i])
                          ELSE sb.lines[i]]]),
                     cursor |-> cursor]
          [] clear_type = "ToBeginning" ->
               IF cursor_row > n
               THEN [status |-> "Panic", screen |-> sb, cursor |-> cursor]
               ELSE [status |-> "Ok",
                     screen |-> mark_all_dirty(
                       [sb EXCEPT !.lines = [i \in 1..n |->
                          IF i < cursor_row + 1 THEN Line_clear(sb.lines[i])
                          ELSE IF i = cursor_row + 1
                          THEN Line_clear_to(sb.lines[i], cursor_col)
                          ELSE sb.lines[i]]]),
                     cursor |-> cursor]

\* clear_line clearing the whole row whatever the clear type.
clear_line_whole_row(sb, clear_type, cursor) ==
    LET row == cursor.position.row
    IN  IF row >= Len(sb.lines) THEN sb
        ELSE [sb EXCEPT
                !.lines[row + 1] = Line_clear(@),
                !.dirty_regions = mark_line_dirty(@, row)]

\* ScreenBuffer::clear_line
clear_line(sb, clear_type, cursor) ==
    LET row == cursor.position.row
    IN  IF row >= Len(sb.lines) THEN sb
        ELSE [sb EXCEPT
                !.lines[row + 1] =
                   CASE clear_type = "All" -> Line_clear(@)
                     [] clear_type = "ToEnd" -> Line_clear_from(@, cursor.position.col)
                     [] clear_type = "ToBeginning" -> Line_clear_to(@, cursor.position.col),
                !.dirty_regions = mark_line_dirty(@, row)]

\* Vec::remove(i) and Vec::insert(i, x) with zero-based i
vec_remove(v, i) == SubSeq(v, 1, i) \o SubSeq(v, i + 2, Len(v))
vec_insert(v, i, x) == SubSeq(v, 1, i) \o <<x>> \o SubSeq(v, i + 1, Len(v))

\* The loop body of insert_lines, run k times.
RECURSIVE insert_loop(_, _, _, _)
insert_loop(lines, start_row, width, k) ==
    IF k = 0 THEN lines
    ELSE insert_loop(
           IF Len(lines) > start_row
           THEN vec_insert(vec_remove(lines, Len(lines) - 1), start_row, Line_new(width))
           ELSE lines,
           start_row, width, k - 1)

\* insert_lines inserting at the top of the screen, not at the cursor's row.
insert_lines_at_top(sb, count, cursor) ==
    LET start_row == cursor.position.row
    IN  IF start_row >= Len(sb.lines) THEN sb
        ELSE mark_all_dirty(
               [sb EXCEPT !.lines =
                  insert_loop(@, 0, sb.width,
                              Min(count, sb.height - cursor.position.row))])

\* ScreenBuffer::insert_lines
insert_lines(sb, count, cursor) ==
    LET start_row == cursor.position.row
    IN  IF start_row >= Len(sb.lines) THEN sb
        ELSE mark_all_dirty(
               [sb EXCEPT !.lines =
                  insert_loop(@, start_row, sb.width,
                              Min(count, sb.height - cursor.position.row))])

\* The loop body of delete_lines, run k times.
RECURSIVE delete_loop(_, _, _, _)
delete_loop(lines, start_row, width, k) ==
    IF k = 0 THEN lines
    ELSE delete_loop(
           IF start_row < Len(lines)
           THEN Append(vec_remove(lines, start_row), Line_new(width))
           ELSE lines,
           start_row, width, k - 1)

\* delete_lines deleting from the top of the screen, not from the cursor's row.
delete_lines_from_top(sb, count, cursor) ==
    LET start_row == cursor.position.row
    IN  IF start_row >= Len(sb.lines) THEN sb
        ELSE mark_all_dirty(
               [sb EXCEPT !.lines =
                  delete_loop(@, 0, sb.width,
                              Min(count, sb.height - cursor.position.row))])

\* ScreenBuffer::delete_lines
delete_lines(sb, count, cursor) ==
    LET start_row == cursor.position.row
    IN  IF start_row >= Len(sb.lines) THEN sb
        ELSE mark_all_dirty(
               [sb EXCEPT !.lines =
                  delete_loop(@, start_row, sb.width,
                              Min(count, sb.height - cursor.position.row))])

\* -------------------------------------------------------------- scrollback

\* ScrollbackBuffer::new
ScrollbackBuffer_new(max_lines) ==
    [lines |-> <<>>, max_lines |-> max_lines, current_size |-> 0]

\* push_line evicting the newest line, pop_back, where the code has pop_front.
push_line_evicts_newest(sbk, line) ==
    IF sbk.current_size >= sbk.max_lines
    THEN [sbk EXCEPT !.lines = Append(IF @ = <<>> THEN @
                                      ELSE SubSeq(@, 1, Len(@) - 1), line)]
    ELSE [sbk EXCEPT !.current_size = @ + 1, !.lines = Append(@, line)]

\* ScrollbackBuffer::push_line: pop_front on an empty deque does nothing.
push_line(sbk, line) ==
    IF sbk.current_size >= sbk.max_lines
    THEN [sbk EXCEPT !.lines = Append(IF @ = <<>> THEN @ ELSE Tail(@), line)]
    ELSE [sbk EXCEPT !.current_size = @ + 1, !.lines = Append(@, line)]

\* ScrollbackBuffer::get_line: Option<&Line> as a sequence of at most one line.
get_line(sbk, index) ==
    IF index < Len(sbk.lines) THEN <<sbk.lines[index + 1]>> ELSE <<>>

\* ScrollbackBuffer::len
ScrollbackBuffer_len(sbk) == Len(sbk.lines)

\* ScrollbackBuffer::clear
ScrollbackBuffer_clear(sbk) == [sbk EXCEPT !.lines = <<>>, !.current_size = 0]

\* ------------------------------------------------------------------ cursor

\* CursorPosition::default
CursorPosition_default == [row |-> 0, col |-> 0, origin_mode |-> FALSE]

\* Cursor::new
Cursor_new ==
    [position |-> CursorPosition_default, style |-> "Block",
     visibility |-> "Visible", saved_positions |-> <<>>]

\* A cursor movement's result; ok = FALSE is the arithmetic-overflow panic of
\* a build with overflow checks.
Moved(ok, cursor) == [ok |-> ok, cursor |-> cursor]

\* u16 addition: panics with overflow checks, wraps without them.
u16_add_overflows(a, b) == a + b >= U16Modulus
u16_wrapping_add(a, b) == (a + b) % U16Modulus

\* Cursor::move_up
move_up(cursor, n, screen) ==
    LET new_row == saturating_sub(cursor.position.row, n)
    IN  set_position(cursor, new_row + 1, cursor.position.col + 1, screen)

\* Cursor::move_down
move_down(cursor, n, screen, overflow_checks) ==
    IF u16_add_overflows(cursor.position.row, n) /\ overflow_checks
    THEN Moved(FALSE, cursor)
    ELSE LET new_row == Min(u16_wrapping_add(cursor.position.row, n),
                            saturating_sub(screen.height, 1))
         IN  Moved(TRUE, set_position(cursor, new_row + 1,
                                      cursor.position.col + 1, screen))

\* Cursor::move_forward
move_forward(cursor, n, screen, overflow_checks) ==
    IF u16_add_overflows(cursor.position.col, n) /\ overflow_checks
    THEN Moved(FALSE, cursor)
    ELSE LET new_col == Min(u16_wrapping_add(cursor.position.col, n),
                            saturating_sub(screen.width, 1))
         IN  Moved(TRUE, set_position(cursor, cursor.position.row + 1,
                                      new_col + 1, screen))

\* Cursor::move_back
move_back(cursor, n) ==
    [cursor EXCEPT !.position.col = saturating_sub(@, n)]

\* advance without the clamp at the last column when auto_wrap is off.
advance_unclamped(cursor, screen, modes) ==
    LET col == cursor.position.col + 1
    IN  IF col >= screen.width /\ modes.auto_wrap
        THEN LET row == cursor.position.row + 1
             IN  [cursor EXCEPT
                    !.position.col = 0,
                    !.position.row =
                       IF row >= screen.height
                       THEN saturating_sub(screen.height, 1)
                       ELSE row]
        ELSE [cursor EXCEPT !.position.col = col]

\* Cursor::advance: wraps to the next row, never scrolls.
advance(cursor, screen, modes) ==
    LET col == cursor.position.col + 1
    IN  IF col >= screen.width
        THEN IF modes.auto_wrap
             THEN LET row == cursor.position.row + 1
                  IN  [cursor EXCEPT
                         !.position.col = 0,
                         !.position.row =
                            IF row >= screen.height
                            THEN saturating_sub(screen.height, 1)
                            ELSE row]
             ELSE [cursor EXCEPT !.position.col = saturating_sub(screen.width, 1)]
        ELSE [cursor EXCEPT !.position.col = col]

\* line_feed scrolling one row too late: `>` where the code has `>=`.
line_feed_scrolls_late(cursor, screen, scrollback) ==
    LET row == cursor.position.row + 1
        n == Len(screen.lines)
    IN  IF row > screen.height
        THEN [cursor |-> [cursor EXCEPT !.position.row =
                                           saturating_sub(screen.height, 1)],
              scrollback |-> IF n > 0 THEN push_line(scrollback, screen.lines[1])
                             ELSE scrollback,
              screen |-> mark_all_dirty(
                 [screen EXCEPT !.lines =
                    [i \in 1..n |-> IF i < n THEN screen.lines[i + 1]
                                    ELSE Line_new(screen.width)]])]
        ELSE [cursor |-> [cursor EXCEPT !.position.row = row],
              scrollback |-> scrollback, screen |-> screen]

\* Cursor::line_feed
line_feed(cursor, screen, scrollback) ==
    LET row == cursor.position.row + 1
        n == Len(screen.lines)
    IN  IF row >= screen.height
        THEN [cursor |-> [cursor EXCEPT !.position.row =
                                           saturating_sub(screen.height, 1)],
              scrollback |-> IF n > 0 THEN push_line(scrollback, screen.lines[1])
                             ELSE scrollback,
              screen |-> mark_all_dirty(
                 [screen EXCEPT !.lines =
                    [i \in 1..n |-> IF i < n THEN screen.lines[i + 1]
                                    ELSE Line_new(screen.width)]])]
        ELSE [cursor |-> [cursor EXCEPT !.position.row = row],
              scrollback |-> scrollback, screen |-> screen]

\* Cursor::carriage_return
carriage_return(cursor) == [cursor EXCEPT !.position.col = 0]

\* TabStops::new: a stop on every 8th column, column 0 included.
TabStops_new(width) ==
    [stops |-> [i \in 1..width |-> (i - 1) % 8 = 0], default_width |-> 8]

\* next_tab_stop searching from from_col itself.
next_tab_stop_inclusive(tabs, from_col) ==
    LET n == Len(tabs.stops)
        found == {col \in from_col..(n - 1) : tabs.stops[col + 1]}
    IN  IF found # {}
        THEN CHOOSE col \in found : \A other \in found : col <= other
        ELSE saturating_sub(n, 1)

\* TabStops::next_tab_stop
next_tab_stop(tabs, from_col) ==
    LET n == Len(tabs.stops)
        found == {col \in (from_col + 1)..(n - 1) : tabs.stops[col + 1]}
    IN  IF found # {}
        THEN CHOOSE col \in found : \A other \in found : col <= other
        ELSE saturating_sub(n, 1)

\* Cursor::tab_forward
tab_forward(cursor, tabs, screen) ==
    [cursor EXCEPT !.position.col =
        Min(next_tab_stop(tabs, cursor.position.col),
            saturating_sub(screen.width, 1))]

\* Cursor::backspace
backspace(cursor, screen) ==
    IF cursor.position.col > 0
    THEN [cursor EXCEPT !.position.col = @ - 1]
    ELSE IF cursor.position.row > 0
         THEN [cursor EXCEPT !.position.row = @ - 1,
                             !.position.col = saturating_sub(screen.width, 1)]
         ELSE cursor

\* Cursor::save_position
save_position(cursor) ==
    [cursor EXCEPT !.saved_positions = Append(@, cursor.position)]

\* Cursor::restore_position taking the oldest saved position, not the latest.
restore_position_oldest_first(cursor, screen) ==
    IF cursor.saved_positions # <<>>
    THEN LET saved_pos == cursor.saved_positions[1]
         IN  [cursor EXCEPT
                !.saved_positions = Tail(@),
                !.position =
                   [saved_pos EXCEPT
                      !.row = Min(@, saturating_sub(screen.height, 1)),
                      !.col = Min(@, saturating_sub(screen.width, 1))]]
    ELSE cursor

\* Cursor::restore_position
restore_position(cursor, screen) ==
    IF cursor.saved_positions # <<>>
    THEN LET n == Len(cursor.saved_positions)
             saved_pos == cursor.saved_positions[n]
         IN  [cursor EXCEPT
                !.saved_positions = SubSeq(@, 1, n - 1),
                !.position =
                   [saved_pos EXCEPT
                      !.row = Min(@, saturating_sub(screen.height, 1)),
                      !.col = Min(@, saturating_sub(screen.width, 1))]]
    ELSE cursor

\* ------------------------------------------------------------------- modes

\* TerminalModes::default
TerminalModes_default ==
    [insert_mode |-> FALSE, auto_wrap |-> TRUE, cursor_visible |-> TRUE,
     application_keypad |-> FALSE, application_cursor |-> FALSE,
     origin_mode |-> FALSE, current_attributes |-> CellAttributes_default]

\* One arm of the match in set_graphics_attributes.
apply_sgr(a, param) ==
    CASE param = 0 -> CellAttributes_default
      [] param = 1 -> [a EXCEPT !.bold = TRUE]
      [] param = 2 -> [a EXCEPT !.dim = TRUE]
      [] param = 3 -> [a EXCEPT !.italic = TRUE]
      [] param = 4 -> [a EXCEPT !.underline = "Single"]
      [] param \in {5, 6} -> [a EXCEPT !.blink = "Slow"]
      [] param = 7 -> [a EXCEPT !.reverse = TRUE]
      [] param = 8 -> [a EXCEPT !.invisible = TRUE]
      [] param = 9 -> [a EXCEPT !.strikethrough = TRUE]
      [] param = 21 -> [a EXCEPT !.underline = "Double"]
      [] param = 22 -> [a EXCEPT !.bold = FALSE, !.dim = FALSE]
      [] param = 23 -> [a EXCEPT !.italic = FALSE]
      [] param = 24 -> [a EXCEPT !.underline = "None"]
      [] param = 25 -> [a EXCEPT !.blink = "None"]
      [] param = 27 -> [a EXCEPT !.reverse = FALSE]
      [] param = 28 -> [a EXCEPT !.invisible = FALSE]
      [] param = 29 -> [a EXCEPT !.strikethrough = FALSE]
      [] OTHER -> a

\* TerminalModes::set_graphics_attributes
RECURSIVE set_graphics_attributes(_, _)
set_graphics_attributes(modes, params) ==
    IF params = <<>> THEN modes
    ELSE set_graphics_attributes(
           [modes EXCEPT !.current_attributes = apply_sgr(@, Head(params))],
           Tail(params))

\* -------------------------------------------------------------------- pane

\* PaneStatistics::default (the counters)
PaneStatistics_default ==
    [bytes_received |-> 0, bytes_sent |-> 0, lines_processed |-> 0,
     commands_executed |-> 0, unhandled_sequences |-> 0, render_count |-> 0]

\* Pane::new: modes are TerminalModes::default() whatever config.auto_wrap is.
\* events is the list of events handed to the event handler so far.
Pane_new(config) ==
    [title |-> config.default_title,
     modified |-> FALSE,
     terminal |-> Terminal_new,
     pty |-> [present |-> FALSE],
     screen_buffer |-> ScreenBuffer_new(config.initial_size[1], config.initial_size[2]),
     scrollback |-> ScrollbackBuffer_new(config.scrollback_lines),
     cursor |-> Cursor_new,
     modes |-> TerminalModes_default,
     tabs |-> TabStops_new(config.initial_size[1]),
     config |-> config,
     stats |-> PaneStatistics_default,
     events |-> <<>>]

\* Pane::emit_event with no listener registered
emit_event(p, event) == [p EXCEPT !.events = Append(@, event)]

\* Pane::update_activity
update_activity(p) ==
    IF ~p.modified
    THEN emit_event([p EXCEPT !.modified = TRUE],
                    [event |-> "ContentChanged", region |-> "Screen"])
    ELSE p

\* The outcome of a call on the pane: result is "Ok", "Err" or "Panic".
Outcome(p, result) == [pane |-> p, result |-> result]

\* Pane::execute_terminal_command
execute_terminal_command(p, command, overflow_checks) ==
    CASE command.cmd = "PrintChar" ->
           LET w == write_char_at_cursor(p.screen_buffer, command.ch, p.cursor, p.modes)
           IN  IF ~w.ok THEN Outcome(p, "Err")
               ELSE Outcome([p EXCEPT !.screen_buffer = w.screen,
                                      !.cursor = advance(p.cursor, w.screen, p.modes)],
                            "Ok")
      [] command.cmd = "CursorUp" ->
           Outcome([p EXCEPT !.cursor = move_up(@, command.n, p.screen_buffer)], "Ok")
      [] command.cmd = "CursorDown" ->
           LET m == move_down(p.cursor, command.n, p.screen_buffer, overflow_checks)
           IN  Outcome([p EXCEPT !.cursor = m.cursor], IF m.ok THEN "Ok" ELSE "Panic")
      [] command.cmd = "CursorForward" ->
           LET m == move_forward(p.cursor, command.n, p.screen_buffer, overflow_checks)
           IN  Outcome([p EXCEPT !.cursor = m.cursor], IF m.ok THEN "Ok" ELSE "Panic")
      [] command.cmd = "CursorBack" ->
           Outcome([p EXCEPT !.cursor = move_back(@, command.n)], "Ok")
      [] command.cmd = "CursorPosition" ->
           Outcome([p EXCEPT !.cursor =
                       set_position(@, command.row, command.col, p.screen_buffer)],
                   "Ok")
      [] command.cmd = "ClearScreen" ->
           LET c == clear_screen(p.screen_buffer, command.clear_type, p.cursor)
           IN  Outcome([p EXCEPT !.screen_buffer = c.screen, !.cursor = c.cursor],
                       c.status)
      [] command.cmd = "ClearLine" ->
           Outcome([p EXCEPT !.screen_buffer =
                       clear_line(@, command.clear_type, p.cursor)], "Ok")
      [] command.cmd = "LineFeed" ->
           LET l == line_feed(p.cursor, p.screen_buffer, p.scrollback)
           IN  Outcome([p EXCEPT !.cursor = l.cursor, !.screen_buffer = l.screen,
                                 !.scrollback = l.scrollback], "Ok")
      [] command.cmd = "CarriageReturn" ->
           Outcome([p EXCEPT !.cursor = carriage_return(@)], "Ok")
      [] command.cmd = "Tab" ->
           Outcome([p EXCEPT !.cursor = tab_forward(@, p.tabs, p.screen_buffer)], "Ok")
      [] command.cmd = "Backspace" ->
           Outcome([p EXCEPT !.cursor = backspace(@, p.screen_buffer)], "Ok")
      [] command.cmd = "SetGraphicsRendition" ->
           Outcome([p EXCEPT !.modes = set_graphics_attributes(@, command.params)],
                   "Ok")
      [] OTHER ->
           Outcome([p EXCEPT !.stats.unhandled_sequences = @ + 1], "Ok")

\* The loop of handle_pty_data: an Err or a panic ends it with the rest of
\* the data unprocessed.  t is what process_byte returned, e the outcome of
\* executing its command; each is bound once.
RECURSIVE process_data(_, _, _)
process_data(p, data, overflow_checks) ==
    IF data = <<>> THEN Outcome(p, "Ok")
    ELSE CHOOSE out \in
           { CHOOSE done \in
               { IF e.result # "Ok" THEN e
                 ELSE process_data(e.pane, Tail(data), overflow_checks)
                 : e \in { IF t.status # "Ok" \/ t.command.cmd = "None"
                           THEN Outcome([p EXCEPT !.terminal = t.terminal], t.status)
                           ELSE execute_terminal_command(
                                  [p EXCEPT !.terminal = t.terminal], t.command,
                                  overflow_checks) } } : TRUE
             : t \in {Terminal_process_byte(p.terminal, Head(data))} } : TRUE

\* Pane::handle_pty_data
handle_pty_data(p, data, overflow_checks) ==
    LET r == process_data([p EXCEPT !.stats.bytes_received = @ + Len(data)],
                          data, overflow_checks)
    IN  IF r.result = "Ok" THEN Outcome(update_activity(r.pane), "Ok") ELSE r

\* Pane::process_output
process_output(p, data, overflow_checks) == handle_pty_data(p, data, overflow_checks)

\* BasicPty::new, as PtyFactory::create returns it: no process, 80 x 24
BasicPty_new == [present |-> TRUE, process |-> <<>>, size |-> <<80, 24>>]

\* BasicPty::spawn: the mock process
BasicPty_spawn(pty, command, args) ==
    IF command = "" THEN [ok |-> FALSE, pty |-> pty]
    ELSE [ok |-> TRUE,
          pty |-> [pty EXCEPT !.process = <<[pid |-> 1234, command |-> command,
                                             args |-> args, alive |-> TRUE]>>]]

\* Pane::set_title
set_title(p, title) ==
    IF p.title # title
    THEN emit_event([p EXCEPT !.title = title],
                    [event |-> "TitleChanged", title |-> title])
    ELSE p

\* Pane::spawn_process(command, args, env): the PTY is created when the pane
\* has none, and stays when spawn fails.  A title is the sequence of its
\* words.
Pane_spawn_process(p, command, args) ==
    LET created == IF ~p.pty.present THEN [p EXCEPT !.pty = BasicPty_new] ELSE p
        r == BasicPty_spawn(created.pty, command, args)
    IN  IF ~r.ok THEN Outcome(created, "Err")
        ELSE LET spawned == emit_event([created EXCEPT !.pty = r.pty],
                                       [event |-> "ProcessSpawned", pid |-> 1234])
             IN  Outcome(IF spawned.title = spawned.config.default_title
                         THEN set_title(spawned, <<command>> \o args)
                         ELSE spawned,
                         "Ok")

\* BasicPty::resize
BasicPty_resize(pty, rows, cols) ==
    IF rows = 0 \/ cols = 0 THEN [ok |-> FALSE, pty |-> pty]
    ELSE [ok |-> TRUE, pty |-> [pty EXCEPT !.size = <<cols, rows>>]]

\* Pane::resize rejecting a zero size only after it has resized.
Pane_resize_checks_late(p, rows, cols) ==
    LET r == IF p.pty.present THEN BasicPty_resize(p.pty, rows, cols)
             ELSE [ok |-> TRUE, pty |-> p.pty]
        resized ==
          emit_event(
            [p EXCEPT !.pty = r.pty,
                      !.screen_buffer = ScreenBuffer_resize(@, cols, rows),
                      !.tabs = TabStops_new(cols)],
            [event |-> "Resized", cols |-> cols, rows |-> rows])
    IN  IF ~r.ok THEN Outcome(p, "Err")
        ELSE IF rows = 0 \/ cols = 0 THEN Outcome(resized, "Err")
        ELSE Outcome(resized, "Ok")

\* Pane::resize
Pane_resize(p, rows, cols) ==
    IF rows = 0 \/ cols = 0 THEN Outcome(p, "Err")
    ELSE LET r == IF p.pty.present THEN BasicPty_resize(p.pty, rows, cols)
                  ELSE [ok |-> TRUE, pty |-> p.pty]
         IN  IF ~r.ok THEN Outcome(p, "Err")
             ELSE Outcome(
                    emit_event(
                      [p EXCEPT !.pty = r.pty,
                                !.screen_buffer = ScreenBuffer_resize(@, cols, rows),
                                !.tabs = TabStops_new(cols)],
                      [event |-> "Resized", cols |-> cols, rows |-> rows]),
                    "Ok")

\* PaneConfig::validate. The checks on default_command, working_directory,
\* max_memory_usage and max_fps pass for the values PaneConfig::default gives
\* them.
PaneConfig_validate(config) ==
    /\ ~(\/ config.initial_size[1] < config.min_size[1]
         \/ config.initial_size[2] < config.min_size[2])
    /\ config.max_size # <<>>
          => ~(\/ config.initial_size[1] > config.max_size[1]
               \/ config.initial_size[2] > config.max_size[2])
    /\ ~(config.scrollback_lines > 1000000)

\* The CursorVisibility update_config picks.
visibility_of(config) ==
    IF config.show_cursor
    THEN IF config.cursor_blink
         THEN CASE config.cursor_style = "Block" -> "BlinkingBlock"
                [] config.cursor_style = "Underline" -> "BlinkingUnderline"
                [] config.cursor_style = "Bar" -> "BlinkingBar"
         ELSE "Visible"
    ELSE "Hidden"

\* Pane::update_config
Pane_update_config(p, config) ==
    IF ~PaneConfig_validate(config) THEN Outcome(p, "Err")
    ELSE LET resized ==
               IF config.initial_size # p.config.initial_size
               THEN Pane_resize(p, config.initial_size[2], config.initial_size[1])
               ELSE Outcome(p, "Ok")
             q == resized.pane
         IN  IF resized.result # "Ok" THEN resized
             ELSE Outcome(
                    [q EXCEPT
                       !.scrollback =
                          IF config.scrollback_lines # p.config.scrollback_lines
                          THEN ScrollbackBuffer_new(config.scrollback_lines)
                          ELSE @,
                       !.cursor.style =
                          IF config.cursor_style # p.config.cursor_style
                          THEN config.cursor_style
                          ELSE @,
                       !.cursor.visibility =
                          IF config.show_cursor # p.config.show_cursor
                          THEN visibility_of(config)
                          ELSE @,
                       !.modes.auto_wrap = config.auto_wrap,
                       !.modes.cursor_visible = config.show_cursor,
                       !.config = config],
                    "Ok")

\* Pane::clear_screen
Pane_clear_screen(p) ==
    LET c == clear_screen(p.screen_buffer, "All", p.cursor)
    IN  Outcome([p EXCEPT !.screen_buffer = c.screen, !.cursor = c.cursor], c.status)

\* Pane::get_size
get_size(p) == <<p.screen_buffer.width, p.screen_buffer.height>>

\* Pane::validate_state
validate_state(p) ==
    LET width == get_size(p)[1]
        height == get_size(p)[2]
    IN  /\ ~(p.cursor.position.row >= height \/ p.cursor.position.col >= width)
        /\ Len(p.screen_buffer.lines) = height
        /\ \A i \in 1..Len(p.screen_buffer.lines) :
              Len(p.screen_buffer.lines[i].cells) = width

\* ------------------------------------------------------------------ inputs

\* The decimal digit d as a byte.
Digit(d) == Ascii.ZERO + d

\* k copies of byte b.
Repeat(b, k) == [i \in 1..k |-> b]

\* ESC [ params final
Csi(params, final) == <<Ascii.ESC, Ascii.LBRACKET>> \o params \o <<final>>

\* ESC final
Esc(final) == <<Ascii.ESC, final>>

\* Final bytes of the CSI sequences fed to the pane; q is not a known one.
CsiFinals ==
    {Ascii.UA, Ascii.UB, Ascii.UC, Ascii.UD, Ascii.UH, Ascii.UJ, Ascii.UK,
     Ascii.UL, Ascii.UM, Ascii.lm, Ascii.lq}

\* ESC[1mX ESC[0mY
BoldThenPlain ==
    Csi(<<Digit(1)>>, Ascii.lm) \o <<Ascii.UX>> \o
    Csi(<<Digit(0)>>, Ascii.lm) \o <<Ascii.UY>>

\* ESC[65535;B
DownByU16Max ==
    Csi(<<Digit(6), Digit(5), Digit(5), Digit(3), Digit(5), Ascii.SEMI>>, Ascii.UB)

\* The chunks of PTY output handed to the small pane: printable bytes and
\* controls, the escape sequences, every CSI final byte without parameters
\* and with the parameter string "2;", and a few longer sequences.
Chunks ==
    {<<b>> : b \in {Ascii.UX, Ascii.LF, Ascii.CR, Ascii.BS, Ascii.HT}}
    \cup {Repeat(Ascii.UX, k) : k \in 2..MaxCols}
    \cup {<<Ascii.LF>> \o Repeat(Ascii.UX, MaxCols - 1),
          Repeat(Ascii.UX, MaxCols - 1) \o <<Ascii.BS>>}
    \cup {Esc(f) : f \in {Ascii.SEVEN, Ascii.EIGHT, Ascii.lc, Ascii.UD, Ascii.UM}}
    \cup {Csi(ps, f) : ps \in {<<>>, <<Digit(2), Ascii.SEMI>>}, f \in CsiFinals}
    \cup {Csi(<<Digit(1), Ascii.SEMI>>, f) : f \in {Ascii.UJ, Ascii.UK, Ascii.lm}}
    \cup {Csi(<<Digit(2)>>, Ascii.UJ), Csi(<<Digit(0)>>, Ascii.lm),
          Csi(<<Digit(0)>>, Ascii.lm) \o <<Ascii.UX>>,
          <<Ascii.UX>> \o Esc(Ascii.SEVEN), <<Ascii.LF>> \o Esc(Ascii.EIGHT),
          BoldThenPlain, DownByU16Max}

\* PaneConfig::default: the fields the pane reads; max_size <<>> is None.
PaneConfig_default ==
    [initial_size |-> <<80, 24>>, min_size |-> <<10, 3>>, max_size |-> <<>>,
     scrollback_lines |-> 10000, auto_wrap |-> TRUE, cursor_blink |-> TRUE,
     cursor_style |-> "Block", show_cursor |-> TRUE,
     default_title |-> <<"Terminal">>]

\* PaneConfig of the small pane (Pane::new does not validate it).
SmallConfig ==
    [PaneConfig_default EXCEPT !.initial_size = <<MaxCols, MaxRows>>,
                               !.min_size = <<1, 1>>,
                               !.scrollback_lines = 1]

\* PaneConfig of the wide pane: wide enough for tab stops beyond column 0.
WideConfig == [SmallConfig EXCEPT !.initial_size = <<MaxTabCols, MaxRows>>]

\* The chunks handed to the wide pane: a tab, a printable byte, a line feed.
TabChunks == {<<Ascii.HT>>, <<Ascii.UX>>, <<Ascii.LF>>}

\* The configurations handed to update_config: the pane's own size, a
\* smaller one and one below min_size; two scrollback capacities; auto_wrap
\* on and off.
Configs ==
    {[SmallConfig EXCEPT !.initial_size = size,
                         !.scrollback_lines = lines,
                         !.auto_wrap = wrap] :
        size \in {<<MaxCols, MaxRows>>, <<MaxCols - 1, MaxRows - 1>>, <<0, MaxRows>>},
        lines \in {1, MaxScrollback},
        wrap \in BOOLEAN}

\* The chunks handed to the reconfigured pane: a printable byte, a row of
\* another one, a line feed.
ConfigChunks == {<<Ascii.UY>>, Repeat(Ascii.UX, MaxCols), <<Ascii.LF>>}

\* The chunks handed to the default-sized pane: 1, height and height + 1 line
\* feeds, a printable byte, a carriage return.
DefaultChunks ==
    {Repeat(Ascii.LF, k) : k \in {1, 24, 25}} \cup {<<Ascii.UX>>, <<Ascii.CR>>}

\* The chunks handed to the pane whose screen buffer is also called directly:
\* a print, a full row of prints, a line feed, clear-screen to the end and
\* (parameter string "2;") of the whole screen, clear-line, and text on two
\* rows with the cursor brought back up to the first.
ScreenChunks ==
    {<<Ascii.UX>>, Repeat(Ascii.UX, MaxCols), <<Ascii.LF>>, Csi(<<>>, Ascii.UJ),
     Csi(<<Digit(2), Ascii.SEMI>>, Ascii.UJ), Csi(<<>>, Ascii.UK),
     <<Ascii.UX, Ascii.LF, Ascii.UY>> \o Csi(<<>>, Ascii.UA)}

\* The chunks handed to the pane of any scrollback capacity: one and two line
\* feeds, a printable byte.
LineFeedChunks == {<<Ascii.LF>>, <<Ascii.LF, Ascii.LF>>, <<Ascii.UX>>}

\* The lines pushed onto the stand-alone scrollback: one cell, holding X or Y.
ScrollLines ==
    {Line_write_char(Line_new(1), 0, ch, CellAttributes_default) :
        ch \in {Ascii.UX, Ascii.UY}}

\* The chunks handed to the stand-alone Terminal: whole sequences, and the
\* pieces of sequences split across calls.
TermChunks ==
    {Csi(<<Digit(5)>>, Ascii.UB),
     Csi(<<Digit(1), Digit(2), Ascii.SEMI, Digit(3), Digit(4)>>, Ascii.UH),
     Csi(<<Digit(2)>>, Ascii.UJ), Csi(<<Digit(1)>>, Ascii.UK),
     Csi(<<Digit(1), Ascii.SEMI, Digit(4)>>, Ascii.lm),
     Csi(<<Ascii.SEMI>>, Ascii.UH), Csi(<<Digit(5), Ascii.SEMI>>, Ascii.UB)}
    \cup {Csi(<<>>, f) : f \in {Ascii.UA, Ascii.UH, Ascii.UJ, Ascii.lm, Ascii.lq}}
    \cup {<<Ascii.ESC, Ascii.LBRACKET>>, <<Ascii.ESC, Ascii.RBRACKET>>,
          <<Ascii.ESC, Ascii.BACKSLASH>>}
    \cup {<<b>> : b \in {Ascii.ESC, Ascii.LBRACKET, Digit(5), Ascii.SEMI, Ascii.UB,
                         Ascii.UX, Ascii.LF, Ascii.BEL, Ascii.BACKSLASH,
                         Ascii.DEL, Ascii.HIGH}}

\* --------------------------------------------------------- scrollback search

\* the UTF-8 bytes of a char below U+0800, as String stores it
utf8(ch) ==
    IF ch < 128 THEN <<ch>> ELSE <<192 + (ch \div 64), 128 + (ch % 64)>>

\* a String collected from chars
RECURSIVE collect(_)
collect(chars) ==
    IF chars = <<>> THEN <<>>
    ELSE utf8(chars[1]) \o collect(SubSeq(chars, 2, Len(chars)))

\* Line::text: the characters of the cells collected into a String
Line_text(line) ==
    collect([i \in 1..Len(line.cells) |-> line.cells[i].character])

\* str::to_lowercase on the bytes of ASCII letters
to_lowercase(text) ==
    [i \in 1..Len(text) |-> IF text[i] \in 65..90 THEN text[i] + 32 ELSE text[i]]

\* str::is_char_boundary
is_char_boundary(text, index) ==
    \/ index = 0
    \/ index = Len(text)
    \/ index < Len(text) /\ text[index + 1] \notin 128..191

\* str::find(&pattern): Option<usize> as a sequence of at most one byte
\* offset, the first at which the pattern starts; the empty pattern is found
\* at offset 0 of every string, the empty string included
str_find(text, pattern) ==
    LET at == {pos \in 0..Len(text) :
                  /\ pos + Len(pattern) <= Len(text)
                  /\ SubSeq(text, pos + 1, pos + Len(pattern)) = pattern}
    IN  IF at = {} THEN <<>>
        ELSE <<CHOOSE pos \in at : \A other \in at : pos <= other>>

\* the while loop of ScrollbackBuffer::search on one line.  The slice
\* search_text[start..] panics when start is beyond the end of the string or
\* inside a char.
RECURSIVE search_line(_, _, _, _, _, _)
search_line(search_text, search_pattern, pattern, line_idx, start, matches) ==
    IF start > Len(search_text) \/ ~is_char_boundary(search_text, start)
    THEN [matches |-> matches, status |-> "Panic"]
    ELSE LET found == str_find(SubSeq(search_text, start + 1, Len(search_text)),
                               search_pattern)
         IN  IF found = <<>>
             THEN [matches |-> matches, status |-> "Ok"]
             ELSE LET match_start == start + found[1]
                  IN  search_line(search_text, search_pattern, pattern, line_idx,
                                  match_start + 1,
                                  Append(matches,
                                         [buffer_type |-> "Scrollback",
                                          line |-> line_idx,
                                          start_col |-> match_start,
                                          end_col |-> match_start + Len(pattern),
                                          text |-> pattern]))

\* the for loop of ScrollbackBuffer::search from line line_idx on
RECURSIVE search_lines(_, _, _, _, _)
search_lines(sbk, pattern, case_sensitive, line_idx, matches) ==
    IF line_idx >= Len(sbk.lines) THEN [matches |-> matches, status |-> "Ok"]
    ELSE LET text == Line_text(sbk.lines[line_idx + 1])
             search_text == IF case_sensitive THEN text ELSE to_lowercase(text)
             search_pattern == IF case_sensitive THEN pattern
                               ELSE to_lowercase(pattern)
             r == CHOOSE out \in {search_line(search_text, search_pattern,
                                              pattern, line_idx, 0, matches)} : TRUE
         IN  IF r.status = "Panic" THEN r
             ELSE search_lines(sbk, pattern, case_sensitive, line_idx + 1,
                               r.matches)

\* ScrollbackBuffer::search(pattern, case_sensitive)
ScrollbackBuffer_search(sbk, pattern, case_sensitive) ==
    search_lines(sbk, pattern, case_sensitive, 0, <<>>)

\* ----------------------------------------------------- pane event handler

\* EventPriority: Low = 0, Normal = 1, High = 2, Critical = 3
EventPriority == [Low |-> 0, Normal |-> 1, High |-> 2, Critical |-> 3]

\* PaneEventHandler::new(): no listeners for any event type, nothing queued
PaneEventHandler_new ==
    [listeners |-> <<>>, event_queue |-> <<>>, dispatching |-> FALSE]

\* self.listeners.get(&event_type): the Vec of the type, empty when absent
listeners_of(h, event_type) ==
    IF event_type \in DOMAIN h.listeners THEN h.listeners[event_type] ELSE <<>>

\* listeners.sort_by(|a, b| b.priority.cmp(&a.priority)): a stable sort, high
\* priority first; elements that compare equal keep their order
RECURSIVE sort_by_priority(_)
sort_by_priority(v) ==
    IF v = <<>> THEN <<>>
    ELSE LET sorted == sort_by_priority(SubSeq(v, 1, Len(v) - 1))
             x == v[Len(v)]
             k == Cardinality({i \in 1..Len(sorted) :
                                  sorted[i].priority >= x.priority})
         IN  SubSeq(sorted, 1, k) \o <<x>> \o SubSeq(sorted, k + 1, Len(sorted))

\* PaneEventHandler::register_listener(event_type, listener): push onto the
\* Vec of event_type, then sort that Vec by priority
register_listener(h, event_type, listener) ==
    LET pushed == Append(listeners_of(h, event_type), listener)
        entry == [t \in {event_type} |-> sort_by_priority(pushed)]
    IN  [h EXCEPT !.listeners =
            [t \in DOMAIN h.listeners \cup {event_type} |->
                IF t = event_type THEN entry[t] ELSE h.listeners[t]]]

\* the listeners of a Vec whose can_handle(event_type) is true, in Vec order
handling(v, event_type) ==
    SelectSeq(v, LAMBDA l : event_type \in l.can_handle)

\* PaneEventHandler::dispatch_immediate(event): the listeners invoked, in
\* order: first those of the event's own type, then those of All
dispatch_immediate(h, event_type) ==
    handling(listeners_of(h, event_type), event_type)
    \o handling(listeners_of(h, "All"), event_type)

\* --------------------------------------------------------------- frame

\* The orders in which a HashMap holding the keys can iterate over them: the
\* order is unspecified, depends on the map's random hasher and changes when
\* an insert makes the table grow.
Orders(keys) ==
    {order \in [1..Cardinality(keys) -> keys] :
        \A i, j \in 1..Cardinality(keys) : order[i] = order[j] => i = j}

\* Frame::new followed by Frame::initialize: no windows, none active.  keys is
\* the order in which self.sashes iterates; an Option is a sequence of at most
\* one value.
Frame_new ==
    [sashes |-> <<>>, keys |-> <<>>, active_sash_id |-> <<>>, next_sash_id |-> 1,
     app_state |-> "Running"]

\* MockSash::new
MockSash_new(id) == [id |-> id, active |-> FALSE]

\* Frame::create_window_with_config: the frames it can leave, one for every
\* order in which the HashMap can iterate after the insert
create_window_with_config(f) ==
    LET window_id == f.next_sash_id
        ids == DOMAIN f.sashes \cup {window_id}
    IN  {[f EXCEPT !.next_sash_id = @ + 1,
                   !.sashes = [id \in ids |-> IF id = window_id
                                              THEN MockSash_new(window_id)
                                              ELSE f.sashes[id]],
                   !.keys = order,
                   !.active_sash_id = IF @ = <<>> THEN <<window_id>> ELSE @]
            : order \in Orders(ids)}

\* Frame::destroy_window: a removal leaves the other keys where they are; the
\* first key of the iteration becomes active when the active window went
destroy_window(f, id) ==
    IF id \notin DOMAIN f.sashes THEN [frame |-> f, result |-> "Err"]
    ELSE LET keys == SelectSeq(f.keys, LAMBDA k : k # id)
         IN  [frame |-> [f EXCEPT
                  !.sashes = [k \in DOMAIN f.sashes \ {id} |-> f.sashes[k]],
                  !.keys = keys,
                  !.active_sash_id =
                      IF @ = <<id>>
                      THEN (IF keys = <<>> THEN <<>> ELSE <<keys[1]>>)
                      ELSE @],
              result |-> "Ok"]

\* Frame::list_windows: the keys in iteration order
list_windows(f) == f.keys

\* Frame::set_active_window
set_active_window(f, id) ==
    IF id \notin DOMAIN f.sashes THEN [frame |-> f, result |-> "Err"]
    ELSE [frame |-> [f EXCEPT
              !.sashes = [k \in DOMAIN f.sashes |->
                             IF k = id THEN [f.sashes[k] EXCEPT !.active = TRUE]
                             ELSE IF <<k>> = f.active_sash_id
                             THEN [f.sashes[k] EXCEPT !.active = FALSE]
                             ELSE f.sashes[k]],
              !.active_sash_id = <<id>>],
          result |-> "Ok"]

\* window_ids.iter().position(|&w_id| w_id == id), 0-based, of the active
\* window, and 0 when none is active
current_index_of(f, window_ids) ==
    IF f.active_sash_id = <<>> THEN 0
    ELSE LET at == {i \in 1..Len(window_ids) : window_ids[i] = f.active_sash_id[1]}
         IN  IF at = {} THEN 0 ELSE (CHOOSE i \in at : TRUE) - 1

\* Frame::focus_next_window
focus_next_window(f) ==
    LET window_ids == list_windows(f)
    IN  IF window_ids = <<>> THEN [frame |-> f, result |-> "Ok"]
        ELSE LET next_index == (current_index_of(f, window_ids) + 1)
                                   % Len(window_ids)
             IN  set_active_window(f, window_ids[next_index + 1])

\* Frame::focus_previous_window
focus_previous_window(f) ==
    LET window_ids == list_windows(f)
    IN  IF window_ids = <<>> THEN [frame |-> f, result |-> "Ok"]
        ELSE LET current_index == current_index_of(f, window_ids)
                 prev_index == IF current_index = 0 THEN Len(window_ids) - 1
                               ELSE current_index - 1
             IN  set_active_window(f, window_ids[prev_index + 1])

\* Frame::get_active_window
get_active_window(f) == f.active_sash_id

\* ------------------------------------------------------------- tab manager

\* TabConfig::default; an Option is a sequence of at most one value
TabConfig_default ==
    [max_tabs |-> <<>>, allow_no_tabs |-> FALSE, auto_close_empty |-> FALSE,
     confirm_close_modified |-> TRUE, new_tab_position |-> "AfterCurrent"]

\* TabManager::new(config)
TabManager_new(config) ==
    [tabs |-> <<>>, active_tab |-> <<>>, next_tab_id |-> 1, tab_config |-> config]

\* Tab::new
Tab_new(pane_id, title) ==
    [pane_id |-> pane_id, title |-> title, closable |-> TRUE, modified |-> FALSE]

\* TabManager::add_tab
add_tab(tm, pane_id, title) ==
    IF tm.tab_config.max_tabs # <<>> /\ Len(tm.tabs) >= tm.tab_config.max_tabs[1]
    THEN [manager |-> tm, result |-> "Err"]
    ELSE LET position == tm.tab_config.new_tab_position
             new_index ==
               CASE position = "End" -> Len(tm.tabs)
                 [] position = "AfterCurrent" ->
                      IF tm.active_tab # <<>> THEN tm.active_tab[1] + 1
                      ELSE Len(tm.tabs)
                 [] position = "Beginning" -> 0
             inserted == vec_insert(tm.tabs, new_index, Tab_new(pane_id, title))
         IN  [manager |->
                [tm EXCEPT
                   !.tabs = inserted,
                   !.active_tab =
                      IF @ = <<>> THEN <<new_index>>
                      ELSE IF position = "AfterCurrent" /\ new_index <= @[1]
                      THEN <<@[1] + 1>>
                      ELSE @],
              result |-> "Ok"]

\* TabManager::remove_tab
remove_tab(tm, index) ==
    IF index >= Len(tm.tabs) THEN [manager |-> tm, result |-> "Err"]
    ELSE IF Len(tm.tabs) = 1 /\ ~tm.tab_config.allow_no_tabs
    THEN [manager |-> tm, result |-> "Err"]
    ELSE IF tm.tabs[index + 1].modified /\ tm.tab_config.confirm_close_modified
    THEN [manager |-> tm, result |-> "Err"]
    ELSE LET removed == vec_remove(tm.tabs, index)
         IN  [manager |->
                [tm EXCEPT
                   !.tabs = removed,
                   !.active_tab =
                      IF @ = <<>> THEN @
                      ELSE IF index = @[1]
                      THEN (IF removed = <<>> THEN <<>>
                            ELSE IF index >= Len(removed) THEN <<Len(removed) - 1>>
                            ELSE <<index>>)
                      ELSE IF index < @[1] THEN <<@[1] - 1>>
                      ELSE @],
              result |-> "Ok"]

\* TabManager::set_active_tab
set_active_tab(tm, index) ==
    IF index >= Len(tm.tabs) THEN [manager |-> tm, result |-> "Err"]
    ELSE [manager |-> [tm EXCEPT !.active_tab = <<index>>], result |-> "Ok"]

\* TabManager::move_tab
move_tab(tm, from, to) ==
    IF from >= Len(tm.tabs) THEN [manager |-> tm, result |-> "Err"]
    ELSE IF to > Len(tm.tabs) THEN [manager |-> tm, result |-> "Err"]
    ELSE IF from = to THEN [manager |-> tm, result |-> "Ok"]
    ELSE LET tab == tm.tabs[from + 1]
             insert_pos == IF from < to THEN to - 1 ELSE to
         IN  [manager |->
                [tm EXCEPT
                   !.tabs = vec_insert(vec_remove(@, from), insert_pos, tab),
                   !.active_tab =
                      IF @ = <<>> THEN @
                      ELSE IF @[1] = from THEN <<insert_pos>>
                      ELSE IF from < @[1] /\ insert_pos >= @[1] THEN <<@[1] - 1>>
                      ELSE IF from > @[1] /\ insert_pos <= @[1] THEN <<@[1] + 1>>
                      ELSE @],
              result |-> "Ok"]

\* TabManager::get_active_pane
get_active_pane(tm) ==
    IF tm.active_tab # <<>> /\ tm.active_tab[1] < Len(tm.tabs)
    THEN <<tm.tabs[tm.active_tab[1] + 1].pane_id>>
    ELSE <<>>

\* TabManager::tab_count
tab_count(tm) == Len(tm.tabs)

\* TabManager::active_tab_index
active_tab_index(tm) == tm.active_tab

\* TabManager::next_tab
next_tab(tm) ==
    IF tm.tabs = <<>> THEN [manager |-> tm, result |-> "Err"]
    ELSE [manager |->
            [tm EXCEPT !.active_tab =
                IF @ # <<>> THEN <<(@[1] + 1) % Len(tm.tabs)>> ELSE <<0>>],
          result |-> "Ok"]

\* TabManager::previous_tab
previous_tab(tm) ==
    IF tm.tabs = <<>> THEN [manager |-> tm, result |-> "Err"]
    ELSE [manager |->
            [tm EXCEPT !.active_tab =
                IF @ # <<>>
                THEN (IF @[1] = 0 THEN <<Len(tm.tabs) - 1>> ELSE <<@[1] - 1>>)
                ELSE <<Len(tm.tabs) - 1>>],
          result |-> "Ok"]

\* ------------------------------------------------------------------- state

VARIABLES
    pane,             \* the Pane
    prev,             \* the Pane as it was before the latest call
    calls,            \* the calls made on the pane so far, oldest first
    result,           \* "Ok", "Err" or "Panic": how the latest call ended
    overflow_checks,  \* the build's integer-overflow checks: "on" (panic), "off"
                      \* (wrap) or "undetermined" while no addition has overflowed
    term,             \* a stand-alone Terminal
    tcalls,           \* the process_bytes calls made on term: the parser state
                      \* at the call, the data, the commands returned and the
                      \* result ("Ok", "Err" or "Panic")
    sbuf,             \* a stand-alone ScrollbackBuffer
    scalls,           \* the push_line / clear calls made on sbuf
    handler,          \* a stand-alone PaneEventHandler
    hcalls,           \* the register_listener / dispatch calls made on handler;
                      \* a dispatch records the listeners invoked, in order
    frame,            \* a Frame
    fcalls,           \* the calls made on frame, each with the active window
                      \* before it and its result
    tab_manager,      \* a TabManager
    tmcalls           \* the calls made on tab_manager, each with the active
                      \* pane before it

vars == <<pane, prev, calls, result, overflow_checks, term, tcalls, sbuf, scalls,
          handler, hcalls, frame, fcalls, tab_manager, tmcalls>>

paneVars == <<pane, prev, calls, result, overflow_checks>>
termVars == <<term, tcalls>>
sbufVars == <<sbuf, scalls>>
eventVars == <<handler, hcalls>>
frameVars == <<frame, fcalls>>
tabVars == <<tab_manager, tmcalls>>

\* -------------------------------------------------------------- operations

\* Pane::process_output(data).  A u16 addition that overflows panics in a
\* build with overflow checks and wraps in one without; the build is the same
\* for the whole behaviour and is fixed by the first overflow.
ProcessOutput(data) ==
    /\ result # "Panic"
    /\ \E checked \in {process_output(pane, data, TRUE)} :
         LET overflowed == /\ checked.result = "Panic"
                           /\ process_output(pane, data, FALSE) # checked
         IN  \/ /\ ~overflowed
                /\ pane' = checked.pane
                /\ result' = checked.result
                /\ UNCHANGED overflow_checks
             \/ /\ overflowed
                /\ overflow_checks # "off"
                /\ pane' = checked.pane
                /\ result' = "Panic"
                /\ overflow_checks' = "on"
             \/ /\ overflowed
                /\ overflow_checks # "on"
                /\ \E wrapped \in {process_output(pane, data, FALSE)} :
                      /\ pane' = wrapped.pane
                      /\ result' = wrapped.result
                /\ overflow_checks' = "off"
    /\ prev' = pane
    /\ calls' = Append(calls, [op |-> "process_output", data |-> data])
    /\ UNCHANGED <<termVars, sbufVars, eventVars, frameVars, tabVars>>

\* Pane::resize(rows, cols)
Resize(rows, cols) ==
    /\ result # "Panic"
    /\ \E r \in {Pane_resize(pane, rows, cols)} :
          /\ pane' = r.pane
          /\ result' = r.result
    /\ prev' = pane
    /\ calls' = Append(calls, [op |-> "resize", rows |-> rows, cols |-> cols])
    /\ UNCHANGED <<overflow_checks, termVars, sbufVars, eventVars, frameVars, tabVars>>

\* Pane::clear_screen()
ClearScreen ==
    /\ result # "Panic"
    /\ \E r \in {Pane_clear_screen(pane)} :
          /\ pane' = r.pane
          /\ result' = r.result
    /\ prev' = pane
    /\ calls' = Append(calls, [op |-> "clear_screen"])
    /\ UNCHANGED <<overflow_checks, termVars, sbufVars, eventVars, frameVars, tabVars>>

\* Pane::update_config(config)
UpdateConfig(config) ==
    /\ result # "Panic"
    /\ \E r \in {Pane_update_config(pane, config)} :
          /\ pane' = r.pane
          /\ result' = r.result
    /\ prev' = pane
    /\ calls' = Append(calls, [op |-> "update_config", config |-> config])
    /\ UNCHANGED <<overflow_checks, termVars, sbufVars, eventVars, frameVars, tabVars>>

\* ScreenBuffer::insert_lines(count, &cursor) on the pane's screen and cursor
InsertLines(count) ==
    /\ result # "Panic"
    /\ pane' = [pane EXCEPT !.screen_buffer = insert_lines(@, count, pane.cursor)]
    /\ result' = "Ok"
    /\ prev' = pane
    /\ calls' = Append(calls, [op |-> "insert_lines", count |-> count])
    /\ UNCHANGED <<overflow_checks, termVars, sbufVars, eventVars, frameVars, tabVars>>

\* ScreenBuffer::delete_lines(count, &cursor) on the pane's screen and cursor
DeleteLines(count) ==
    /\ result # "Panic"
    /\ pane' = [pane EXCEPT !.screen_buffer = delete_lines(@, count, pane.cursor)]
    /\ result' = "Ok"
    /\ prev' = pane
    /\ calls' = Append(calls, [op |-> "delete_lines", count |-> count])
    /\ UNCHANGED <<overflow_checks, termVars, sbufVars, eventVars, frameVars, tabVars>>

\* Terminal::process_bytes(data) on the stand-alone terminal
ProcessBytes(data) ==
    /\ \A i \in 1..Len(tcalls) : tcalls[i].result # "Panic"
    /\ \E r \in {Terminal_process_bytes(term, data)} :
          /\ term' = r.terminal
          /\ tcalls' = Append(tcalls, [parser_state |-> term.parser.state_machine,
                                       data |-> data, commands |-> r.commands,
                                       result |-> r.status])
    /\ UNCHANGED <<paneVars, sbufVars, eventVars, frameVars, tabVars>>

\* ScrollbackBuffer::push_line(line) on the stand-alone scrollback
PushLine(line) ==
    /\ sbuf' = push_line(sbuf, line)
    /\ scalls' = Append(scalls, [op |-> "push_line", line |-> line])
    /\ UNCHANGED <<paneVars, termVars, eventVars, frameVars, tabVars>>

\* ScrollbackBuffer::clear() on the stand-alone scrollback
ClearScrollback ==
    /\ sbuf' = ScrollbackBuffer_clear(sbuf)
    /\ scalls' = Append(scalls, [op |-> "clear"])
    /\ UNCHANGED <<paneVars, termVars, eventVars, frameVars, tabVars>>

\* PaneEventHandler::register_listener(event_type, listener); the listener
\* is identified by its registration number
RegisterListener(event_type, priority, can_handle) ==
    /\ \E l \in {[id |-> Len(hcalls) + 1, priority |-> priority,
                  can_handle |-> can_handle]} :
          /\ handler' = register_listener(handler, event_type, l)
          /\ hcalls' = Append(hcalls, [op |-> "register_listener",
                                       event_type |-> event_type, listener |-> l])
    /\ UNCHANGED <<paneVars, termVars, sbufVars, frameVars, tabVars>>

\* PaneEventHandler::dispatch(event).  No dispatch is in progress between
\* calls and a listener holds no reference to the handler, so the queue is
\* empty when the while loop reaches it.
Dispatch(event_type) ==
    /\ ~handler.dispatching
    /\ handler' = [handler EXCEPT !.dispatching = FALSE, !.event_queue = <<>>]
    /\ hcalls' = Append(hcalls, [op |-> "dispatch", event_type |-> event_type,
                                 invoked |-> dispatch_immediate(handler, event_type)])
    /\ UNCHANGED <<paneVars, termVars, sbufVars, frameVars, tabVars>>

\* ScrollbackBuffer::search(pattern, true) on the stand-alone scrollback, the
\* pattern given by its chars
Search(pattern) ==
    /\ \E r \in {ScrollbackBuffer_search(sbuf, collect(pattern), TRUE)} :
          scalls' = Append(scalls, [op |-> "search", pattern |-> pattern,
                                    matches |-> r.matches, result |-> r.status])
    /\ UNCHANGED <<sbuf, paneVars, termVars, eventVars, frameVars, tabVars>>

\* Frame::create_window()
CreateWindow ==
    /\ frame.next_sash_id <= MaxWindows
    /\ \E f \in create_window_with_config(frame) : frame' = f
    /\ fcalls' = Append(fcalls, [op |-> "create_window", id |-> frame.next_sash_id,
                                 before |-> frame, result |-> "Ok"])
    /\ UNCHANGED <<paneVars, termVars, sbufVars, eventVars, tabVars>>

\* Frame::destroy_window(id)
DestroyWindow(id) ==
    /\ \E r \in {destroy_window(frame, id)} :
          /\ frame' = r.frame
          /\ fcalls' = Append(fcalls, [op |-> "destroy_window", id |-> id,
                                       before |-> frame, result |-> r.result])
    /\ UNCHANGED <<paneVars, termVars, sbufVars, eventVars, tabVars>>

\* Frame::set_active_window(id)
SetActiveWindow(id) ==
    /\ \E r \in {set_active_window(frame, id)} :
          /\ frame' = r.frame
          /\ fcalls' = Append(fcalls, [op |-> "set_active_window", id |-> id,
                                       before |-> frame, result |-> r.result])
    /\ UNCHANGED <<paneVars, termVars, sbufVars, eventVars, tabVars>>

\* Frame::focus_next_window()
FocusNextWindow ==
    /\ \E r \in {focus_next_window(frame)} :
          /\ frame' = r.frame
          /\ fcalls' = Append(fcalls, [op |-> "focus_next_window", id |-> 0,
                                       before |-> frame, result |-> r.result])
    /\ UNCHANGED <<paneVars, termVars, sbufVars, eventVars, tabVars>>

\* Frame::focus_previous_window()
FocusPreviousWindow ==
    /\ \E r \in {focus_previous_window(frame)} :
          /\ frame' = r.frame
          /\ fcalls' = Append(fcalls, [op |-> "focus_previous_window", id |-> 0,
                                       before |-> frame, result |-> r.result])
    /\ UNCHANGED <<paneVars, termVars, sbufVars, eventVars, tabVars>>

\* Pane::spawn_process(command, args, &[])
SpawnProcess(command, args) ==
    /\ result # "Panic"
    /\ \E r \in {Pane_spawn_process(pane, command, args)} :
          /\ pane' = r.pane
          /\ result' = r.result
    /\ prev' = pane
    /\ calls' = Append(calls, [op |-> "spawn_process", command |-> command,
                               args |-> args])
    /\ UNCHANGED <<overflow_checks, termVars, sbufVars, eventVars, frameVars, tabVars>>

\* Cursor::save_position() on the pane's cursor; the call is logged with the
\* position the cursor has
SavePosition ==
    /\ result # "Panic"
    /\ pane' = [pane EXCEPT !.cursor = save_position(@)]
    /\ result' = "Ok"
    /\ prev' = pane
    /\ calls' = Append(calls, [op |-> "save_position",
                               position |-> pane.cursor.position])
    /\ UNCHANGED <<overflow_checks, termVars, sbufVars, eventVars, frameVars, tabVars>>

\* Cursor::restore_position(&screen) on the pane's cursor and screen
RestorePosition ==
    /\ result # "Panic"
    /\ pane' = [pane EXCEPT !.cursor = restore_position(@, pane.screen_buffer)]
    /\ result' = "Ok"
    /\ prev' = pane
    /\ calls' = Append(calls, [op |-> "restore_position"])
    /\ UNCHANGED <<overflow_checks, termVars, sbufVars, eventVars, frameVars, tabVars>>

\* A call on the tab manager: r is its outcome; the call is logged with the
\* pane that was active before it
TabCall(op, r) ==
    /\ tab_manager' = r.manager
    /\ tmcalls' = Append(tmcalls, [op |-> op, result |-> r.result,
                                   active_pane |-> get_active_pane(tab_manager)])
    /\ UNCHANGED <<paneVars, termVars, sbufVars, eventVars, frameVars>>

\* TabManager::add_tab(pane_id, title): the n-th tab added shows pane n
AddTab ==
    LET added == Len(SelectSeq(tmcalls, LAMBDA c : c.op = "add_tab"))
    IN  /\ added < MaxTabs
        /\ \E r \in {add_tab(tab_manager, added + 1, <<"Tab">>)} :
              TabCall("add_tab", r)

\* TabManager::remove_tab(index)
RemoveTab(index) ==
    \E r \in {remove_tab(tab_manager, index)} : TabCall("remove_tab", r)

\* TabManager::set_active_tab(index)
SetActiveTab(index) ==
    \E r \in {set_active_tab(tab_manager, index)} : TabCall("set_active_tab", r)

\* TabManager::move_tab(from, to)
MoveTab(from, to) ==
    \E r \in {move_tab(tab_manager, from, to)} : TabCall("move_tab", r)

\* TabManager::next_tab()
NextTab ==
    \E r \in {next_tab(tab_manager)} : TabCall("next_tab", r)

\* TabManager::previous_tab()
PreviousTab ==
    \E r \in {previous_tab(tab_manager)} : TabCall("previous_tab", r)

\* ---------------------------------------------------------- specifications

\* The small pane, fed chunks and resized.
Init ==
    /\ pane = Pane_new(SmallConfig)
    /\ prev = pane
    /\ calls = <<>>
    /\ result = "Ok"
    /\ overflow_checks = "undetermined"
    /\ term = Terminal_new
    /\ tcalls = <<>>
    /\ sbuf = ScrollbackBuffer_new(0)
    /\ scalls = <<>>
    /\ handler = PaneEventHandler_new
    /\ hcalls = <<>>
    /\ frame = Frame_new
    /\ fcalls = <<>>
    /\ tab_manager = TabManager_new(TabConfig_default)
    /\ tmcalls = <<>>

Next ==
    \/ \E data \in Chunks :
          Len(calls) < MaxCalls /\ ProcessOutput(data)
    \/ \E rows \in 0..MaxRows, cols \in 0..MaxCols :
          Len(calls) < MaxCalls /\ Resize(rows, cols)

Spec == Init /\ [][Next]_vars

\* The stand-alone Terminal, fed chunks.
InitTerminal ==
    /\ pane = Pane_new(SmallConfig)
    /\ prev = pane
    /\ calls = <<>>
    /\ result = "Ok"
    /\ overflow_checks = "undetermined"
    /\ term = Terminal_new
    /\ tcalls = <<>>
    /\ sbuf = ScrollbackBuffer_new(0)
    /\ scalls = <<>>
    /\ handler = PaneEventHandler_new
    /\ hcalls = <<>>
    /\ frame = Frame_new
    /\ fcalls = <<>>
    /\ tab_manager = TabManager_new(TabConfig_default)
    /\ tmcalls = <<>>

NextTerminal ==
    /\ Len(tcalls) < MaxTermCalls
    /\ \E data \in TermChunks : ProcessBytes(data)

SpecTerminal == InitTerminal /\ [][NextTerminal]_vars

\* The pane of PaneConfig::default(), 80 x 24, fed line feeds.
InitDefault ==
    /\ pane = Pane_new(PaneConfig_default)
    /\ prev = pane
    /\ calls = <<>>
    /\ result = "Ok"
    /\ overflow_checks = "undetermined"
    /\ term = Terminal_new
    /\ tcalls = <<>>
    /\ sbuf = ScrollbackBuffer_new(0)
    /\ scalls = <<>>
    /\ handler = PaneEventHandler_new
    /\ hcalls = <<>>
    /\ frame = Frame_new
    /\ fcalls = <<>>
    /\ tab_manager = TabManager_new(TabConfig_default)
    /\ tmcalls = <<>>

NextDefault ==
    /\ Len(calls) < MaxDefaultCalls
    /\ \E data \in DefaultChunks : ProcessOutput(data)

SpecDefault == InitDefault /\ [][NextDefault]_vars

\* The stand-alone ScrollbackBuffer of any capacity 0..MaxScrollback.
InitScrollback ==
    /\ pane = Pane_new(SmallConfig)
    /\ prev = pane
    /\ calls = <<>>
    /\ result = "Ok"
    /\ overflow_checks = "undetermined"
    /\ term = Terminal_new
    /\ tcalls = <<>>
    /\ \E max_lines \in 0..MaxScrollback : sbuf = ScrollbackBuffer_new(max_lines)
    /\ scalls = <<>>
    /\ handler = PaneEventHandler_new
    /\ hcalls = <<>>
    /\ frame = Frame_new
    /\ fcalls = <<>>
    /\ tab_manager = TabManager_new(TabConfig_default)
    /\ tmcalls = <<>>

NextScrollback ==
    \/ \E line \in ScrollLines :
          Len(scalls) < MaxScrollCalls /\ PushLine(line)
    \/ Len(scalls) < MaxScrollCalls /\ ClearScrollback

SpecScrollback == InitScrollback /\ [][NextScrollback]_vars

\* The small pane with its screen buffer driven through the pane (prints,
\* line feeds, clears, resizes that shrink and grow it) and directly
\* (insert_lines, delete_lines).
InitScreen ==
    /\ pane = Pane_new(SmallConfig)
    /\ prev = pane
    /\ calls = <<>>
    /\ result = "Ok"
    /\ overflow_checks = "undetermined"
    /\ term = Terminal_new
    /\ tcalls = <<>>
    /\ sbuf = ScrollbackBuffer_new(0)
    /\ scalls = <<>>
    /\ handler = PaneEventHandler_new
    /\ hcalls = <<>>
    /\ frame = Frame_new
    /\ fcalls = <<>>
    /\ tab_manager = TabManager_new(TabConfig_default)
    /\ tmcalls = <<>>

NextScreen ==
    \/ \E data \in ScreenChunks :
          Len(calls) < MaxScreenCalls /\ ProcessOutput(data)
    \/ \E rows \in {1, MaxRows + 1}, cols \in {2, MaxCols + 1} :
          Len(calls) < MaxScreenCalls /\ Resize(rows, cols)
    \/ \E count \in 1..2 :
          Len(calls) < MaxScreenCalls /\ InsertLines(count)
    \/ \E count \in 1..2 :
          Len(calls) < MaxScreenCalls /\ DeleteLines(count)
    \/ Len(calls) < MaxScreenCalls /\ ClearScreen

SpecScreen == InitScreen /\ [][NextScreen]_vars

\* The small pane with a scrollback of any capacity 0..MaxScrollback
\* (PaneConfig::validate accepts every capacity up to 1,000,000, and
\* Pane::new takes any), fed line feeds and prints.
InitLineFeeds ==
    /\ \E max_lines \in 0..MaxScrollback :
          pane = Pane_new([SmallConfig EXCEPT !.scrollback_lines = max_lines])
    /\ prev = pane
    /\ calls = <<>>
    /\ result = "Ok"
    /\ overflow_checks = "undetermined"
    /\ term = Terminal_new
    /\ tcalls = <<>>
    /\ sbuf = ScrollbackBuffer_new(0)
    /\ scalls = <<>>
    /\ handler = PaneEventHandler_new
    /\ hcalls = <<>>
    /\ frame = Frame_new
    /\ fcalls = <<>>
    /\ tab_manager = TabManager_new(TabConfig_default)
    /\ tmcalls = <<>>

NextLineFeeds ==
    \E data \in LineFeedChunks :
       Len(calls) < MaxFeedCalls /\ ProcessOutput(data)

SpecLineFeeds == InitLineFeeds /\ [][NextLineFeeds]_vars

\* The small pane, fed chunks, resized and reconfigured.
InitConfig ==
    /\ pane = Pane_new(SmallConfig)
    /\ prev = pane
    /\ calls = <<>>
    /\ result = "Ok"
    /\ overflow_checks = "undetermined"
    /\ term = Terminal_new
    /\ tcalls = <<>>
    /\ sbuf = ScrollbackBuffer_new(0)
    /\ scalls = <<>>
    /\ handler = PaneEventHandler_new
    /\ hcalls = <<>>
    /\ frame = Frame_new
    /\ fcalls = <<>>
    /\ tab_manager = TabManager_new(TabConfig_default)
    /\ tmcalls = <<>>

NextConfig ==
    \/ \E data \in ConfigChunks :
          Len(calls) < MaxConfigCalls /\ ProcessOutput(data)
    \/ \E rows \in {1, MaxRows}, cols \in {MaxCols - 1} :
          Len(calls) < MaxConfigCalls /\ Resize(rows, cols)
    \/ \E config \in Configs :
          Len(calls) < MaxConfigCalls /\ UpdateConfig(config)

SpecConfig == InitConfig /\ [][NextConfig]_vars

\* The wide pane, fed tabs and prints and resized to 9 columns and to 8
\* columns more than it began with.
InitTabs ==
    /\ pane = Pane_new(WideConfig)
    /\ prev = pane
    /\ calls = <<>>
    /\ result = "Ok"
    /\ overflow_checks = "undetermined"
    /\ term = Terminal_new
    /\ tcalls = <<>>
    /\ sbuf = ScrollbackBuffer_new(0)
    /\ scalls = <<>>
    /\ handler = PaneEventHandler_new
    /\ hcalls = <<>>
    /\ frame = Frame_new
    /\ fcalls = <<>>
    /\ tab_manager = TabManager_new(TabConfig_default)
    /\ tmcalls = <<>>

NextTabs ==
    \/ \E data \in TabChunks :
          Len(calls) < MaxTabCalls /\ ProcessOutput(data)
    \/ \E cols \in {9, MaxTabCols + 8} :
          Len(calls) < MaxTabCalls /\ Resize(MaxRows, cols)

SpecTabs == InitTabs /\ [][NextTabs]_vars


\* The stand-alone PaneEventHandler: listeners of every priority registered
\* for two event types and for All, events of the two types dispatched.
EventTypes == {"ContentChanged", "BellRung"}

CanHandle == {EventTypes, {"ContentChanged"}}

InitEvents ==
    /\ pane = Pane_new(SmallConfig)
    /\ prev = pane
    /\ calls = <<>>
    /\ result = "Ok"
    /\ overflow_checks = "undetermined"
    /\ term = Terminal_new
    /\ tcalls = <<>>
    /\ sbuf = ScrollbackBuffer_new(0)
    /\ scalls = <<>>
    /\ handler = PaneEventHandler_new
    /\ hcalls = <<>>
    /\ frame = Frame_new
    /\ fcalls = <<>>
    /\ tab_manager = TabManager_new(TabConfig_default)
    /\ tmcalls = <<>>

NextEvents ==
    \/ \E event_type \in EventTypes \cup {"All"}, priority \in 0..3,
          can_handle \in CanHandle :
          Len(hcalls) < MaxEventCalls
          /\ RegisterListener(event_type, priority, can_handle)
    \/ \E event_type \in EventTypes :
          Len(hcalls) < MaxEventCalls /\ Dispatch(event_type)

SpecEvents == InitEvents /\ [][NextEvents]_vars


\* The stand-alone ScrollbackBuffer holding lines of text and searched.
TextLine(chars) ==
    [Line_new(Len(chars)) EXCEPT
        !.cells = [i \in 1..Len(chars) |->
                      [Cell_default EXCEPT !.character = chars[i]]]]

SearchLines ==
    {TextLine(chars) : chars \in {<<Ascii.UX, Ascii.UX, Ascii.UX>>,
                                  <<Ascii.UX, Ascii.UY, Ascii.UX>>,
                                  <<Ascii.HIGH, Ascii.UX>>}}

Patterns ==
    {<<>>, <<Ascii.UX>>, <<Ascii.UX, Ascii.UX>>, <<Ascii.UY, Ascii.UX>>,
     <<Ascii.HIGH>>}

InitSearch ==
    /\ pane = Pane_new(SmallConfig)
    /\ prev = pane
    /\ calls = <<>>
    /\ result = "Ok"
    /\ overflow_checks = "undetermined"
    /\ term = Terminal_new
    /\ tcalls = <<>>
    /\ sbuf = ScrollbackBuffer_new(MaxScrollback)
    /\ scalls = <<>>
    /\ handler = PaneEventHandler_new
    /\ hcalls = <<>>
    /\ frame = Frame_new
    /\ fcalls = <<>>
    /\ tab_manager = TabManager_new(TabConfig_default)
    /\ tmcalls = <<>>

NextSearch ==
    \/ \E line \in SearchLines :
          Len(scalls) < MaxSearchCalls /\ PushLine(line)
    \/ \E pattern \in Patterns :
          Len(scalls) < MaxSearchCalls /\ Search(pattern)

SpecSearch == InitSearch /\ [][NextSearch]_vars


\* The Frame: windows created and destroyed, the focus set and moved.
InitFrame ==
    /\ pane = Pane_new(SmallConfig)
    /\ prev = pane
    /\ calls = <<>>
    /\ result = "Ok"
    /\ overflow_checks = "undetermined"
    /\ term = Terminal_new
    /\ tcalls = <<>>
    /\ sbuf = ScrollbackBuffer_new(0)
    /\ scalls = <<>>
    /\ handler = PaneEventHandler_new
    /\ hcalls = <<>>
    /\ frame = Frame_new
    /\ fcalls = <<>>
    /\ tab_manager = TabManager_new(TabConfig_default)
    /\ tmcalls = <<>>

NextFrame ==
    \/ Len(fcalls) < MaxFrameCalls /\ CreateWindow
    \/ \E id \in 1..MaxWindows :
          Len(fcalls) < MaxFrameCalls /\ DestroyWindow(id)
    \/ \E id \in 1..MaxWindows :
          Len(fcalls) < MaxFrameCalls /\ SetActiveWindow(id)
    \/ Len(fcalls) < MaxFrameCalls /\ FocusNextWindow
    \/ Len(fcalls) < MaxFrameCalls /\ FocusPreviousWindow

SpecFrame == InitFrame /\ [][NextFrame]_vars


\* The small pane and the pane of PaneConfig::default(), each spawning a
\* process and resized.
InitPty ==
    /\ \E config \in {SmallConfig, PaneConfig_default} : pane = Pane_new(config)
    /\ prev = pane
    /\ calls = <<>>
    /\ result = "Ok"
    /\ overflow_checks = "undetermined"
    /\ term = Terminal_new
    /\ tcalls = <<>>
    /\ sbuf = ScrollbackBuffer_new(0)
    /\ scalls = <<>>
    /\ handler = PaneEventHandler_new
    /\ hcalls = <<>>
    /\ frame = Frame_new
    /\ fcalls = <<>>
    /\ tab_manager = TabManager_new(TabConfig_default)
    /\ tmcalls = <<>>

NextPty ==
    \/ \E command \in {"", "sh"}, args \in {<<>>, <<"-l">>} :
          Len(calls) < MaxPtyCalls /\ SpawnProcess(command, args)
    \/ \E rows \in {0, 1, MaxRows}, cols \in {MaxCols - 1, MaxCols} :
          Len(calls) < MaxPtyCalls /\ Resize(rows, cols)

SpecPty == InitPty /\ [][NextPty]_vars


\* The small pane with its cursor moved through the pane (a print, a line
\* feed), the screen shrunk and restored, and the cursor saved and restored
\* directly.
CursorChunks == {<<Ascii.UX>>, <<Ascii.LF>>}

InitCursor ==
    /\ pane = Pane_new(SmallConfig)
    /\ prev = pane
    /\ calls = <<>>
    /\ result = "Ok"
    /\ overflow_checks = "undetermined"
    /\ term = Terminal_new
    /\ tcalls = <<>>
    /\ sbuf = ScrollbackBuffer_new(0)
    /\ scalls = <<>>
    /\ handler = PaneEventHandler_new
    /\ hcalls = <<>>
    /\ frame = Frame_new
    /\ fcalls = <<>>
    /\ tab_manager = TabManager_new(TabConfig_default)
    /\ tmcalls = <<>>

NextCursor ==
    \/ \E data \in CursorChunks :
          Len(calls) < MaxCursorCalls /\ ProcessOutput(data)
    \/ \E rows \in {1}, cols \in {1, MaxCols} :
          Len(calls) < MaxCursorCalls /\ Resize(rows, cols)
    \/ Len(calls) < MaxCursorCalls /\ SavePosition
    \/ Len(calls) < MaxCursorCalls /\ RestorePosition

SpecCursor == InitCursor /\ [][NextCursor]_vars


\* The small pane fed parameter values that do and do not fit a u8 / u16.
\* The value is followed by a separator, the form in which parse_parameters
\* keeps all its digits.
RECURSIVE Decimal(_)
Decimal(n) ==
    IF n < 10 THEN <<Digit(n)>> ELSE Decimal(n \div 10) \o <<Digit(n % 10)>>

SgrOf(value) == Csi(Decimal(value) \o <<Ascii.SEMI>>, Ascii.lm)

DownBy(count) == Csi(Decimal(count) \o <<Ascii.SEMI>>, Ascii.UB)

SgrValues == {1, 38, 256, 257}

DownCounts == {65536}

SgrChunks ==
    {SgrOf(value) : value \in SgrValues}
    \cup {DownBy(count) : count \in DownCounts}
    \cup {<<Ascii.UX>>}

InitSgr ==
    /\ pane = Pane_new(SmallConfig)
    /\ prev = pane
    /\ calls = <<>>
    /\ result = "Ok"
    /\ overflow_checks = "undetermined"
    /\ term = Terminal_new
    /\ tcalls = <<>>
    /\ sbuf = ScrollbackBuffer_new(0)
    /\ scalls = <<>>
    /\ handler = PaneEventHandler_new
    /\ hcalls = <<>>
    /\ frame = Frame_new
    /\ fcalls = <<>>
    /\ tab_manager = TabManager_new(TabConfig_default)
    /\ tmcalls = <<>>

NextSgr ==
    /\ Len(calls) < MaxSgrCalls
    /\ \E data \in SgrChunks : ProcessOutput(data)

SpecSgr == InitSgr /\ [][NextSgr]_vars


\* The TabManager of every NewTabPosition, with and without allow_no_tabs.
TabConfigs ==
    {[TabConfig_default EXCEPT !.new_tab_position = position,
                               !.allow_no_tabs = allow_no_tabs] :
        position \in {"End", "AfterCurrent", "Beginning"},
        allow_no_tabs \in BOOLEAN}

InitTabManager ==
    /\ pane = Pane_new(SmallConfig)
    /\ prev = pane
    /\ calls = <<>>
    /\ result = "Ok"
    /\ overflow_checks = "undetermined"
    /\ term = Terminal_new
    /\ tcalls = <<>>
    /\ sbuf = ScrollbackBuffer_new(0)
    /\ scalls = <<>>
    /\ handler = PaneEventHandler_new
    /\ hcalls = <<>>
    /\ frame = Frame_new
    /\ fcalls = <<>>
    /\ \E config \in TabConfigs : tab_manager = TabManager_new(config)
    /\ tmcalls = <<>>

NextTabManager ==
    \/ Len(tmcalls) < MaxTabManagerCalls /\ AddTab
    \/ \E index \in 0..MaxTabs :
          Len(tmcalls) < MaxTabManagerCalls /\ RemoveTab(index)
    \/ \E index \in 0..MaxTabs :
          Len(tmcalls) < MaxTabManagerCalls /\ SetActiveTab(index)
    \/ \E from \in 0..MaxTabs, to \in 0..MaxTabs :
          Len(tmcalls) < MaxTabManagerCalls /\ MoveTab(from, to)
    \/ Len(tmcalls) < MaxTabManagerCalls /\ NextTab
    \/ Len(tmcalls) < MaxTabManagerCalls /\ PreviousTab

SpecTabManager == InitTabManager /\ [][NextTabManager]_vars

\* ------------------------------------------------------------- properties

\* The latest call on the pane, and whether it was process_output(data) made
\* while the parser was in Ground.
LastCall == calls[Len(calls)]

LastOutputIs(data) ==
    /\ calls # <<>>
    /\ LastCall.op = "process_output"
    /\ LastCall.data = data
    /\ prev.terminal.parser.state_machine = "Ground"

\* The cursor of p lies on the screen of p.
CursorOnScreen(p) ==
    /\ p.cursor.position.row < p.screen_buffer.height
    /\ p.cursor.position.col < p.screen_buffer.width

\* The cell of p's screen at zero-based (row, col).
CellAt(p, row, col) == p.screen_buffer.lines[row + 1].cells[col + 1]

\* All the bytes handed to the pane so far, in order.
RECURSIVE FedFrom(_)
FedFrom(cs) ==
    IF cs = <<>> THEN <<>>
    ELSE (IF Head(cs).op = "process_output" THEN Head(cs).data ELSE <<>>)
         \o FedFrom(Tail(cs))

OnlyOutput == \A i \in 1..Len(calls) : calls[i].op = "process_output"

\* data is ESC [ p1;...;pk F with k >= 1 decimal fields and a final byte the
\* parser knows.
IsCsiWithParameters(data) ==
    /\ Len(data) >= 4
    /\ data[1] = Ascii.ESC
    /\ data[2] = Ascii.LBRACKET
    /\ \A i \in 3..(Len(data) - 1) : IsParamByte(data[i])
    /\ IsFinalByte(data[Len(data)])
    /\ data[Len(data)] \in {Ascii.UA, Ascii.UB, Ascii.UC, Ascii.UD, Ascii.UH,
                            Ascii.lf, Ascii.UJ, Ascii.UK, Ascii.lm, Ascii.UL,
                            Ascii.UM}

\* The parameter values written in such a sequence, an empty field being 0.
WrittenParameters(data) ==
    LET fields == split(SubSeq(data, 3, Len(data) - 1))
    IN  [i \in 1..Len(fields) |-> param_value(fields[i])]

\* The command for such a sequence when it carries the written values.
WrittenCommand(data) ==
    interpret_csi(
      build_csi_sequence([params |-> WrittenParameters(data)],
                         data[Len(data)]).command)

\* C1: a CSI sequence ESC [ p1;...;pk F with decimal fields and a recognised
\* final byte, handed whole to Terminal::process_bytes while the parser is in
\* Ground, returns exactly one command, carrying the written parameter values
\* (ESC[5B gives CursorDown(5), ESC[2J gives ClearScreen(All)).
C1_CsiCarriesWrittenParameters ==
    \A i \in 1..Len(tcalls) :
       (tcalls[i].parser_state = "Ground" /\ IsCsiWithParameters(tcalls[i].data))
          => tcalls[i].commands = <<WrittenCommand(tcalls[i].data)>>

\* C2: after any process_output and resize calls the cursor is on the screen
\* (row < height and col < width), also after a resize that shrinks it.
C2_CursorStaysOnScreen ==
    result # "Panic" => CursorOnScreen(pane)

\* C3: with auto_wrap on, printing on the last column writes the character
\* and wraps to column 0 of the next row; on the bottom row it scrolls as a
\* line feed does (the top line goes to the scrollback, the lines shift up,
\* the bottom line is blank) and the cursor ends at column 0 of the bottom row.
C3_PrintOnLastColumnWrapsAndScrolls ==
    ( /\ LastOutputIs(<<Ascii.UX>>)
      /\ CursorOnScreen(prev)
      /\ prev.cursor.position.col = prev.screen_buffer.width - 1
      /\ prev.modes.auto_wrap )
    => LET row == prev.cursor.position.row
           height == prev.screen_buffer.height
           written == write_char_at_cursor(prev.screen_buffer, Ascii.UX,
                                           prev.cursor, prev.modes).screen
       IN  /\ result = "Ok"
           /\ pane.cursor.position.col = 0
           /\ IF row < height - 1
              THEN /\ pane.cursor.position.row = row + 1
                   /\ pane.screen_buffer.lines = written.lines
                   /\ pane.scrollback = prev.scrollback
              ELSE /\ pane.cursor.position.row = height - 1
                   /\ pane.scrollback = push_line(prev.scrollback, written.lines[1])
                   /\ \A i \in 1..(height - 1) :
                         pane.screen_buffer.lines[i].cells = written.lines[i + 1].cells
                   /\ Line_is_empty(pane.screen_buffer.lines[height])

\* C4: ESC [ 2 J, on any prior content and with the cursor anywhere, leaves
\* every cell of every screen line the default cell and the dirty tracker
\* reporting all-dirty.
C4_EraseAllBlanksTheScreen ==
    LastOutputIs(Csi(<<Digit(2)>>, Ascii.UJ))
    => /\ result = "Ok"
       /\ \A i \in 1..Len(pane.screen_buffer.lines) :
             Line_is_empty(pane.screen_buffer.lines[i])
       /\ pane.screen_buffer.dirty_regions.all_dirty

\* C5: ESC[1m X ESC[0m Y on a fresh pane leaves the cell holding X bold and
\* the cell holding Y not bold.
C5_BoldThenPlainCells ==
    calls = <<[op |-> "process_output", data |-> BoldThenPlain]>>
    => /\ CellAt(pane, 0, 0).character = Ascii.UX
       /\ CellAt(pane, 0, 0).attributes.bold
       /\ CellAt(pane, 0, 1).character = Ascii.UY
       /\ ~CellAt(pane, 0, 1).attributes.bold

\* C6: whatever earlier SGR sequences have set, ESC [ 0 m resets
\* current_attributes to the default set, and a character printed next gets
\* a cell with default attributes.
C6_SgrZeroResetsAttributes ==
    /\ LastOutputIs(Csi(<<Digit(0)>>, Ascii.lm))
       => pane.modes.current_attributes = CellAttributes_default
    /\ (LastOutputIs(Csi(<<Digit(0)>>, Ascii.lm) \o <<Ascii.UX>>) /\ CursorOnScreen(prev))
       => /\ pane.modes.current_attributes = CellAttributes_default
          /\ CellAt(pane, prev.cursor.position.row,
                    prev.cursor.position.col).attributes = CellAttributes_default

\* data ends with the bytes of tail.
EndsWith(data, tail) ==
    /\ Len(data) >= Len(tail)
    /\ SubSeq(data, Len(data) - Len(tail) + 1, Len(data)) = tail

\* C7: move the cursor to P and send ESC 7, then move it elsewhere and send
\* ESC 8, with no resize in between: the cursor is at P again.  Here the
\* first call ends with ESC 7, so P is the cursor position it leaves.
C7_RestoreReturnsToSavedPosition ==
    ( /\ Len(calls) = 2
      /\ OnlyOutput
      /\ EndsWith(calls[1].data, Esc(Ascii.SEVEN))
      /\ EndsWith(calls[2].data, Esc(Ascii.EIGHT)) )
    => pane.cursor.position = prev.cursor.position

\* C8: ESC c puts the modes (current_attributes and auto_wrap included), the
\* cursor (position (0,0), no saved positions) and the tab stops (every 8
\* columns) back to their defaults, from any prior state.
C8_ResetRestoresDefaults ==
    LastOutputIs(Esc(Ascii.lc))
    => /\ pane.modes = TerminalModes_default
       /\ pane.cursor.position = CursorPosition_default
       /\ pane.cursor.saved_positions = <<>>
       /\ pane.tabs = TabStops_new(pane.screen_buffer.width)

\* The count written in CSI n L / CSI n M as fed here: none written means 1.
LineCount(params) == IF params = <<>> THEN 1 ELSE WrittenParameters(Csi(params, Ascii.UL))[1]

\* C9: CSI n L (CSI n M) with the cursor on row r inserts (deletes)
\* min(n, height - r) lines at row r and marks the whole screen dirty: the
\* pane executes the command, as ScreenBuffer::insert_lines / delete_lines do.
C9_InsertDeleteLinesExecuted ==
    \A params \in {<<>>, <<Digit(2), Ascii.SEMI>>} :
       /\ (LastOutputIs(Csi(params, Ascii.UL)) /\ CursorOnScreen(prev))
          => /\ pane.screen_buffer.lines =
                   insert_lines(prev.screen_buffer, LineCount(params), prev.cursor).lines
             /\ pane.screen_buffer.dirty_regions.all_dirty
       /\ (LastOutputIs(Csi(params, Ascii.UM)) /\ CursorOnScreen(prev))
          => /\ pane.screen_buffer.lines =
                   delete_lines(prev.screen_buffer, LineCount(params), prev.cursor).lines
             /\ pane.screen_buffer.dirty_regions.all_dirty

\* height + 1 line feeds have been fed to the fresh default pane, in any
\* split into calls, and nothing else.
FedHeightPlusOneLineFeeds ==
    /\ OnlyOutput
    /\ FedFrom(calls) = Repeat(Ascii.LF, PaneConfig_default.initial_size[2] + 1)

\* C10 as stated: height + 1 line feeds into a fresh 80x24 pane leave one
\* line in the scrollback, 24 screen lines, all of them blank.
C10_OneLineScrolledOff ==
    FedHeightPlusOneLineFeeds
    => /\ ScrollbackBuffer_len(pane.scrollback) = 1
       /\ Len(pane.screen_buffer.lines) = 24
       /\ \A i \in 1..Len(pane.screen_buffer.lines) :
             Line_is_empty(pane.screen_buffer.lines[i])

\* C10 amended: height + 1 line feeds into a fresh 80x24 pane leave two lines
\* in the scrollback (the first 23 move the cursor to the bottom row, the last
\* two scroll), 24 screen lines, all of them blank.
C10_TwoLinesScrolledOff ==
    FedHeightPlusOneLineFeeds
    => /\ ScrollbackBuffer_len(pane.scrollback) = 2
       /\ Len(pane.screen_buffer.lines) = 24
       /\ \A i \in 1..Len(pane.screen_buffer.lines) :
             Line_is_empty(pane.screen_buffer.lines[i])

\* The 25 line feeds have been fed in more than one call and the cursor sits
\* on the bottom row.
C10_LineFeedsFed ==
    /\ FedHeightPlusOneLineFeeds
    /\ Len(calls) > 1
    /\ result = "Ok"
    /\ pane.cursor.position.row = 23

\* C11: for every capacity max_lines, 0 included, and after any push_line
\* and clear calls, the scrollback holds at most max_lines lines and
\* current_size equals the number of lines held.
C11_ScrollbackWithinCapacity ==
    /\ ScrollbackBuffer_len(sbuf) <= sbuf.max_lines
    /\ sbuf.current_size = Len(sbuf.lines)

\* The screen of p has height lines of width cells each.
ScreenIsRectangular(p) ==
    /\ Len(p.screen_buffer.lines) = p.screen_buffer.height
    /\ \A i \in 1..Len(p.screen_buffer.lines) :
          Len(p.screen_buffer.lines[i].cells) = p.screen_buffer.width

\* C12: after any prints, line feeds, clear-screens, clear-lines,
\* insert_lines, delete_lines and successful resizes, the screen has exactly
\* height lines and every line has exactly width cells.
C12_ScreenKeepsItsDimensions ==
    ScreenIsRectangular(pane)

\* A resize has grown the screen beyond its first size and lines were then
\* inserted into it.
C12_InsertedAfterGrowing ==
    /\ Len(calls) = 3
    /\ calls[2].op = "resize"
    /\ calls[3].op = "insert_lines"
    /\ result = "Ok"
    /\ pane.screen_buffer.height = MaxRows + 1
    /\ pane.screen_buffer.width = MaxCols + 1
    /\ Len(pane.screen_buffer.lines) = MaxRows + 1

\* C13: whatever bytes are fed, in however many calls and whatever state
\* earlier calls left the parser in, every Terminal::process_bytes call
\* returns Ok: no Err, no panic.
C13_ProcessBytesAlwaysOk ==
    \A i \in 1..Len(tcalls) : tcalls[i].result = "Ok"

\* A call found the parser inside the parameters of a CSI sequence that
\* earlier calls had begun, fed it another parameter byte, and returned Ok.
C13_FedMidSequence ==
    \E i \in 1..Len(tcalls) :
       /\ tcalls[i].parser_state = "CsiParam"
       /\ tcalls[i].data = <<Ascii.SEMI>>
       /\ tcalls[i].result = "Ok"

\* C14: the command for a CSI sequence depends only on that sequence's
\* bytes: a CSI sequence without parameter bytes, fed whole to a parser in the
\* ground state, yields what a new parser yields for it (the defaults),
\* whatever CSI sequences were processed before.
C14_ParameterlessCsiYieldsDefaults ==
    \A i \in 1..Len(tcalls) :
       (/\ tcalls[i].parser_state = "Ground"
        /\ \E f \in {Ascii.UA, Ascii.UH, Ascii.UJ, Ascii.lm} :
              tcalls[i].data = Csi(<<>>, f))
       => tcalls[i].commands = Terminal_process_bytes(Terminal_new, tcalls[i].data).commands

\* The line feeds fed since the cursor reached the bottom row of the new
\* pane, when nothing but line feeds has been fed: the first height - 1 of
\* them take the cursor from row 0 to the bottom row.
LineFeedsFromBottomRow ==
    Len(FedFrom(calls)) - (pane.screen_buffer.height - 1)

OnlyLineFeedsFed ==
    /\ OnlyOutput
    /\ \A i \in 1..Len(FedFrom(calls)) : FedFrom(calls)[i] = Ascii.LF
    /\ LineFeedsFromBottomRow >= 0

\* C15: with the cursor on the bottom row and an empty scrollback of capacity
\* max_lines, k line feeds later the scrollback holds min(k, max_lines) lines,
\* and the screen has height lines after every one of them.
C15_ScrollbackGrowsByLineFeeds ==
    OnlyLineFeedsFed
    => /\ ScrollbackBuffer_len(pane.scrollback)
             = Min(LineFeedsFromBottomRow, pane.scrollback.max_lines)
       /\ Len(pane.screen_buffer.lines) = pane.screen_buffer.height

\* C16: a line feed with the cursor on the bottom row makes the former top
\* line the newest scrollback line, cell for cell, moves every former line i
\* (1 <= i < height) to i - 1, blanks the bottom line, marks the whole screen
\* dirty and leaves the cursor on row height - 1 in the same column; a line
\* feed with the cursor above the bottom row only increments the row and
\* changes neither screen nor scrollback.
C16_LineFeedScrollsOnBottomRowOnly ==
    (LastOutputIs(<<Ascii.LF>>) /\ CursorOnScreen(prev))
    => LET height == prev.screen_buffer.height
           newest == pane.scrollback.lines[Len(pane.scrollback.lines)]
       IN  /\ result = "Ok"
           /\ pane.cursor.position.col = prev.cursor.position.col
           /\ IF prev.cursor.position.row = height - 1
              THEN /\ pane.scrollback.lines # <<>>
                   /\ newest.cells = prev.screen_buffer.lines[1].cells
                   /\ Len(pane.screen_buffer.lines) = height
                   /\ \A i \in 1..(height - 1) :
                         pane.screen_buffer.lines[i] = prev.screen_buffer.lines[i + 1]
                   /\ Line_is_empty(pane.screen_buffer.lines[height])
                   /\ pane.screen_buffer.dirty_regions.all_dirty
                   /\ pane.cursor.position.row = height - 1
              ELSE /\ pane.cursor.position.row = prev.cursor.position.row + 1
                   /\ pane.screen_buffer = prev.screen_buffer
                   /\ pane.scrollback = prev.scrollback

\* A line feed was executed on the bottom row while that row held text, which
\* is now on the row above.
C16_ScrolledTextUp ==
    /\ Len(calls) = 2
    /\ LastOutputIs(<<Ascii.LF>>)
    /\ prev.cursor.position.row = prev.screen_buffer.height - 1
    /\ prev.cursor.position.col = MaxCols - 1
    /\ CellAt(prev, MaxRows - 1, 0).character = Ascii.UX
    /\ CellAt(pane, MaxRows - 2, 0).character = Ascii.UX
    /\ ScrollbackBuffer_len(pane.scrollback) = 1

\* The bytes handed to the stand-alone terminal so far, and the commands
\* its calls returned, both in order.
RECURSIVE TermFedFrom(_)
TermFedFrom(cs) ==
    IF cs = <<>> THEN <<>> ELSE Head(cs).data \o TermFedFrom(Tail(cs))

RECURSIVE TermCommandsFrom(_)
TermCommandsFrom(cs) ==
    IF cs = <<>> THEN <<>> ELSE Head(cs).commands \o TermCommandsFrom(Tail(cs))

\* C17: Terminal::process_bytes is chunk-invariant and order-preserving: the
\* command lists returned for the consecutive chunks of a byte sequence,
\* concatenated, are the command list one call on a new terminal returns for
\* the whole sequence.
C17_ChunkInvariant ==
    TermCommandsFrom(tcalls)
       = Terminal_process_bytes(Terminal_new, TermFedFrom(tcalls)).commands

\* A chunk boundary cut a sequence: a call that found the parser outside
\* Ground completed the sequence and returned its command, after an earlier
\* call had returned a command of its own.
C17_SequenceCutByChunks ==
    /\ Len(tcalls) = 3
    /\ tcalls[1].commands # <<>>
    /\ tcalls[2].commands = <<>>
    /\ tcalls[3].parser_state = "CsiEntry"
    /\ tcalls[3].commands # <<>>
    /\ tcalls[3].commands # tcalls[1].commands

\* The parameter strings "2;" and "65535;" and the counts they spell.
MoveCounts ==
    {[n |-> 2, params |-> <<Digit(2), Ascii.SEMI>>],
     [n |-> U16Modulus - 1,
      params |-> <<Digit(6), Digit(5), Digit(5), Digit(3), Digit(5), Ascii.SEMI>>]}

\* C18: from a cursor on the screen, CursorUp(n) / CursorDown(n) /
\* CursorForward(n) / CursorBack(n) end on row max(row - n, 0) /
\* row min(row + n, height - 1) / col min(col + n, width - 1) /
\* col max(col - n, 0), for every n up to 65535, with no 16-bit overflow.
C18_CursorMovesClamp ==
    \A m \in MoveCounts :
       LET row == prev.cursor.position.row
           col == prev.cursor.position.col
           height == prev.screen_buffer.height
           width == prev.screen_buffer.width
           moved(final) == LastOutputIs(Csi(m.params, final)) /\ CursorOnScreen(prev)
           ends(r, c) == /\ result = "Ok"
                         /\ pane.cursor.position.row = r
                         /\ pane.cursor.position.col = c
       IN  /\ moved(Ascii.UA) => ends(saturating_sub(row, m.n), col)
           /\ moved(Ascii.UB) => ends(Min(row + m.n, height - 1), col)
           /\ moved(Ascii.UC) => ends(row, Min(col + m.n, width - 1))
           /\ moved(Ascii.UD) => ends(row, saturating_sub(col, m.n))

\* The cursor movements fed to the pane: CSI A/B/C/D without parameters,
\* with "2;" and with "65535;", ESC D and ESC M.
CursorMoves ==
    {Csi(ps, f) : ps \in {<<>>, <<Digit(2), Ascii.SEMI>>},
                  f \in {Ascii.UA, Ascii.UB, Ascii.UC, Ascii.UD}}
    \cup {DownByU16Max, Esc(Ascii.UD), Esc(Ascii.UM)}

\* C19: CursorUp/Down/Forward/Back(n), ESC D and ESC M never scroll: the
\* screen's cells and the scrollback's contents and length are as they were,
\* on the top and the bottom row too.
C19_CursorMovesNeverScroll ==
    \A data \in CursorMoves :
       LastOutputIs(data)
       => /\ Len(pane.screen_buffer.lines) = Len(prev.screen_buffer.lines)
          /\ \A i \in 1..Len(pane.screen_buffer.lines) :
                pane.screen_buffer.lines[i].cells = prev.screen_buffer.lines[i].cells
          /\ pane.scrollback = prev.scrollback

\* ESC D was executed with the cursor on the bottom row while that row held
\* text; the cursor is still there.
C19_IndexOnBottomRow ==
    /\ Len(calls) = 2
    /\ LastOutputIs(Esc(Ascii.UD))
    /\ result = "Ok"
    /\ prev.cursor.position.row = prev.screen_buffer.height - 1
    /\ CellAt(prev, MaxRows - 1, 0).character = Ascii.UX
    /\ pane.cursor.position.row = pane.screen_buffer.height - 1

\* C20: an unknown sequence, such as a CSI sequence whose final byte q the
\* parser does not know, returns Ok, leaves screen cells, cursor, modes, tab
\* stops and scrollback unchanged, and adds exactly one to
\* stats.unhandled_sequences.
C20_UnknownSequenceCountedOnce ==
    \A params \in {<<>>, <<Digit(2), Ascii.SEMI>>} :
       LastOutputIs(Csi(params, Ascii.lq))
       => /\ result = "Ok"
          /\ pane.screen_buffer.lines = prev.screen_buffer.lines
          /\ pane.cursor = prev.cursor
          /\ pane.modes = prev.modes
          /\ pane.tabs = prev.tabs
          /\ pane.scrollback = prev.scrollback
          /\ pane.stats.unhandled_sequences = prev.stats.unhandled_sequences + 1

\* C21: with auto_wrap on and the cursor at column 0 of row r, printing
\* N < width printable characters writes them with the current attributes
\* into cells (r, 0)..(r, N - 1), marks line r dirty and leaves the cursor at
\* (r, N); no other cell, no other line and not the scrollback changes.
C21_PrintWritesRowAndAdvances ==
    \A n \in 1..(MaxCols - 1) :
       LET r == prev.cursor.position.row
           before == prev.screen_buffer.lines[r + 1]
           after == pane.screen_buffer.lines[r + 1]
       IN  ( /\ LastOutputIs(Repeat(Ascii.UX, n))
             /\ CursorOnScreen(prev)
             /\ prev.cursor.position.col = 0
             /\ prev.modes.auto_wrap
             /\ n < prev.screen_buffer.width )
           => /\ result = "Ok"
              /\ pane.cursor.position.row = r
              /\ pane.cursor.position.col = n
              /\ \A c \in 1..n :
                    /\ after.cells[c].character = Ascii.UX
                    /\ after.cells[c].attributes = prev.modes.current_attributes
              /\ \A c \in (n + 1)..Len(before.cells) : after.cells[c] = before.cells[c]
              /\ Len(after.cells) = Len(before.cells)
              /\ after.dirty
              /\ pane.screen_buffer.dirty_regions.dirty_lines[r + 1]
              /\ Len(pane.screen_buffer.lines) = Len(prev.screen_buffer.lines)
              /\ \A i \in 1..Len(prev.screen_buffer.lines) :
                    i # r + 1 => pane.screen_buffer.lines[i] = prev.screen_buffer.lines[i]
              /\ pane.scrollback = prev.scrollback

\* Two characters were printed from column 0 while bold was the current
\* attribute: both cells are bold and the cursor stands after them.
C21_PrintedBold ==
    /\ Len(calls) = 2
    /\ LastOutputIs(Repeat(Ascii.UX, 2))
    /\ prev.cursor.position.col = 0
    /\ prev.modes.current_attributes.bold
    /\ CellAt(pane, 0, 1).attributes.bold
    /\ pane.cursor.position.col = 2

\* C22: with auto_wrap off, a print with the cursor on the last column
\* writes the character into cell (row, width - 1) and leaves the cursor
\* there; further prints overwrite that same cell and never change the row,
\* scroll the screen or touch the scrollback.
C22_NoWrapOverwritesLastCell ==
    \A data \in {<<Ascii.UY>>, Repeat(Ascii.UX, MaxCols)} :
       LET row == prev.cursor.position.row
           width == prev.screen_buffer.width
           before == prev.screen_buffer.lines[row + 1]
           after == pane.screen_buffer.lines[row + 1]
       IN  ( /\ LastOutputIs(data)
             /\ CursorOnScreen(prev)
             /\ prev.cursor.position.col = width - 1
             /\ ~prev.modes.auto_wrap )
           => /\ result = "Ok"
              /\ pane.cursor.position.row = row
              /\ pane.cursor.position.col = width - 1
              /\ after.cells[width].character = data[Len(data)]
              /\ \A c \in 1..(width - 1) : after.cells[c] = before.cells[c]
              /\ Len(pane.screen_buffer.lines) = Len(prev.screen_buffer.lines)
              /\ \A i \in 1..Len(prev.screen_buffer.lines) :
                    i # row + 1 => pane.screen_buffer.lines[i] = prev.screen_buffer.lines[i]
              /\ pane.scrollback = prev.scrollback

\* auto_wrap was turned off, a full row of X was printed, and a Y printed on
\* the last column replaced the X there.
C22_OverwroteLastCell ==
    /\ Len(calls) = 3
    /\ calls[1].op = "update_config"
    /\ LastOutputIs(<<Ascii.UY>>)
    /\ ~prev.modes.auto_wrap
    /\ prev.cursor.position.col = MaxCols - 1
    /\ CellAt(prev, 0, MaxCols - 1).character = Ascii.UX
    /\ CellAt(pane, 0, MaxCols - 1).character = Ascii.UY
    /\ CellAt(pane, 0, 0).character = Ascii.UX

\* The call before last ran ClearScreen(All) and so did the last one: each is
\* Pane::clear_screen() or the sequence ESC[2;J fed whole.
IsClearAll(call) ==
    \/ call.op = "clear_screen"
    \/ call.op = "process_output" /\ call.data = Csi(<<Digit(2), Ascii.SEMI>>, Ascii.UJ)

ClearedAllTwice ==
    /\ Len(calls) >= 2
    /\ IsClearAll(calls[Len(calls) - 1])
    /\ IsClearAll(LastCall)
    /\ prev.terminal.parser.state_machine = "Ground"

\* C23: ClearScreen(All) is idempotent: from any screen and cursor, the
\* second of two applications leaves cells, cursor position and dirty
\* tracker as the first left them: all cells default, the all-dirty flag set.
C23_ClearAllIdempotent ==
    ClearedAllTwice
    => /\ result = "Ok"
       /\ pane.screen_buffer = prev.screen_buffer
       /\ pane.cursor.position = prev.cursor.position
       /\ \A i \in 1..Len(pane.screen_buffer.lines) :
             Line_is_empty(pane.screen_buffer.lines[i])
       /\ pane.screen_buffer.dirty_regions.all_dirty

\* A character was printed, then the screen was cleared twice, by
\* Pane::clear_screen() and by ESC[2;J.
C23_ClearedPrintedScreenTwice ==
    /\ Len(calls) = 3
    /\ calls[1].op = "process_output"
    /\ calls[1].data = <<Ascii.UX>>
    /\ calls[2].op = "clear_screen"
    /\ calls[3].op = "process_output"
    /\ ClearedAllTwice
    /\ result = "Ok"
    /\ CellAt(pane, 0, 0) = Cell_default

\* The latest call fed the pane bytes that its terminal, in the state the
\* call found it, turns into the one command given.
LastCommandIs(command) ==
    /\ calls # <<>>
    /\ LastCall.op = "process_output"
    /\ Terminal_process_bytes(prev.terminal, LastCall.data).commands = <<command>>

\* The cells a clear command resets, for the cursor at (r, c); i and j count
\* rows and columns from 1.
ClearsCell(command, r, c, i, j) ==
    CASE command.cmd = "ClearScreen" /\ command.clear_type = "ToEnd" ->
           (i = r + 1 /\ j >= c + 1) \/ i > r + 1
      [] command.cmd = "ClearScreen" /\ command.clear_type = "ToBeginning" ->
           i < r + 1 \/ (i = r + 1 /\ j <= c + 1)
      [] command.cmd = "ClearLine" /\ command.clear_type = "All" -> i = r + 1
      [] command.cmd = "ClearLine" /\ command.clear_type = "ToEnd" ->
           i = r + 1 /\ j >= c + 1
      [] command.cmd = "ClearLine" /\ command.clear_type = "ToBeginning" ->
           i = r + 1 /\ j <= c + 1

ClearCommands ==
    {[cmd |-> "ClearScreen", clear_type |-> t] : t \in {"ToEnd", "ToBeginning"}}
    \cup {[cmd |-> "ClearLine", clear_type |-> t] : t \in {"All", "ToEnd", "ToBeginning"}}

\* C24: with the cursor on the screen at (r, c), ClearScreen(ToEnd) resets
\* exactly the cells (r, c..width-1) and the rows below r,
\* ClearScreen(ToBeginning) exactly the rows above r and the cells (r, 0..c),
\* ClearLine(All/ToEnd/ToBeginning) exactly the corresponding cells of row r;
\* every other cell, the scrollback and the cursor position are unchanged and
\* the affected lines are flagged dirty.
C24_ClearResetsExactlyItsRegion ==
    \A command \in ClearCommands :
       (LastCommandIs(command) /\ CursorOnScreen(prev))
       => LET r == prev.cursor.position.row
              c == prev.cursor.position.col
              height == prev.screen_buffer.height
              width == prev.screen_buffer.width
          IN  /\ result = "Ok"
              /\ Len(pane.screen_buffer.lines) = height
              /\ \A i \in 1..height :
                    /\ Len(pane.screen_buffer.lines[i].cells) = width
                    /\ \A j \in 1..width :
                          pane.screen_buffer.lines[i].cells[j] =
                             IF ClearsCell(command, r, c, i, j) THEN Cell_default
                             ELSE prev.screen_buffer.lines[i].cells[j]
                    /\ (\E j \in 1..width : ClearsCell(command, r, c, i, j))
                          => pane.screen_buffer.dirty_regions.dirty_lines[i]
              /\ pane.scrollback = prev.scrollback
              /\ pane.cursor.position = prev.cursor.position

\* The cursor stood on the last character of a row's text when the screen
\* was cleared from it to the end: that character is gone, the one before it
\* is still there.
C24_ClearedFromCursor ==
    /\ Len(calls) = 2
    /\ LastCommandIs([cmd |-> "ClearScreen", clear_type |-> "ToEnd"])
    /\ result = "Ok"
    /\ prev.cursor.position.col = MaxCols - 2
    /\ CellAt(prev, 0, MaxCols - 2).character = Ascii.UX
    /\ CellAt(pane, 0, MaxCols - 2) = Cell_default
    /\ CellAt(pane, 0, 0).character = Ascii.UX

\* C25: ScreenBuffer::resize(w', h') with w', h' > 0 keeps every cell (r, c)
\* with r < min(h, h') and c < min(w, w'), makes every other cell of the new
\* grid the default cell, and ends with width w', height h' and the whole
\* screen marked dirty.
C25_ResizeKeepsTheOverlap ==
    ( /\ calls # <<>>
      /\ LastCall.op = "resize"
      /\ LastCall.rows > 0
      /\ LastCall.cols > 0
      /\ result = "Ok" )
    => LET h == prev.screen_buffer.height
           w == prev.screen_buffer.width
       IN  /\ pane.screen_buffer.width = LastCall.cols
           /\ pane.screen_buffer.height = LastCall.rows
           /\ Len(pane.screen_buffer.lines) = LastCall.rows
           /\ \A i \in 1..LastCall.rows :
                 /\ Len(pane.screen_buffer.lines[i].cells) = LastCall.cols
                 /\ \A j \in 1..LastCall.cols :
                       pane.screen_buffer.lines[i].cells[j] =
                          IF i <= Min(h, LastCall.rows) /\ j <= Min(w, LastCall.cols)
                          THEN prev.screen_buffer.lines[i].cells[j]
                          ELSE Cell_default
           /\ pane.screen_buffer.dirty_regions.all_dirty
           /\ \A i \in 1..LastCall.rows :
                 is_line_dirty(pane.screen_buffer.dirty_regions, i - 1)

\* A screen whose top row was full of text became taller and narrower: the
\* text on the left is kept, the last column is cut, the new row is blank.
C25_GrewTallerAndNarrower ==
    /\ Len(calls) = 3
    /\ LastCall.op = "resize"
    /\ result = "Ok"
    /\ LastCall.rows > prev.screen_buffer.height
    /\ LastCall.cols < prev.screen_buffer.width
    /\ CellAt(prev, 0, prev.screen_buffer.width - 1).character = Ascii.UX
    /\ CellAt(prev, 1, 0).character = Ascii.UX
    /\ CellAt(pane, 0, 0).character = Ascii.UX
    /\ CellAt(pane, 1, 0).character = Ascii.UX
    /\ Line_is_empty(pane.screen_buffer.lines[LastCall.rows])

C27_UpdateConfigSetsSize ==
    ( /\ calls # <<>>
      /\ LastCall.op = "update_config"
      /\ result = "Ok" )
    => /\ get_size(pane) = LastCall.config.initial_size
       /\ pane.scrollback =
             IF LastCall.config.scrollback_lines # prev.config.scrollback_lines
             THEN ScrollbackBuffer_new(LastCall.config.scrollback_lines)
             ELSE prev.scrollback

\* C28: Tab moves the cursor to the smallest tab-stop column strictly
\* greater than its column, or to width - 1 when there is none, and never
\* changes the row; the tab stops are the multiples of 8 below the current
\* width, at creation and after every successful resize.
C28_TabMovesToNextStop ==
    LET width == pane.screen_buffer.width
    IN  /\ Len(pane.tabs.stops) = width
        /\ \A col \in 0..(width - 1) : pane.tabs.stops[col + 1] <=> (col % 8 = 0)
        /\ LastOutputIs(<<Ascii.HT>>)
              => LET col == prev.cursor.position.col
                     later == {stop \in (col + 1)..(width - 1) : stop % 8 = 0}
                 IN  /\ result = "Ok"
                     /\ pane.cursor.position.row = prev.cursor.position.row
                     /\ pane.cursor.position.col =
                           IF later # {}
                           THEN CHOOSE stop \in later : \A other \in later : stop <= other
                           ELSE width - 1

\* After a resize that made the pane wider, a tab took the cursor from the
\* stop at column 8 to the stop at column 16.
C28_TabbedFromStopToStop ==
    /\ \E i \in 1..Len(calls) : calls[i].op = "resize" /\ calls[i].cols > MaxTabCols
    /\ LastOutputIs(<<Ascii.HT>>)
    /\ result = "Ok"
    /\ prev.cursor.position.col = 8
    /\ pane.cursor.position.col = 16

\* The lines pushed onto the stand-alone scrollback since it was new or last
\* cleared, oldest first.
RECURSIVE PushedSinceClear(_)
PushedSinceClear(cs) ==
    IF cs = <<>> \/ cs[Len(cs)].op = "clear" THEN <<>>
    ELSE Append(PushedSinceClear(SubSeq(cs, 1, Len(cs) - 1)), cs[Len(cs)].line)

\* C29: eviction is FIFO: after pushing L1..Ln into a scrollback of capacity
\* m >= 1, it holds exactly the last min(n, m) pushed lines in push order,
\* and get_line(0) is the oldest of them.
C29_ScrollbackEvictsOldestFirst ==
    sbuf.max_lines >= 1
    => LET pushed == PushedSinceClear(scalls)
           n == Len(pushed)
           kept == Min(n, sbuf.max_lines)
       IN  /\ sbuf.lines = SubSeq(pushed, n - kept + 1, n)
           /\ get_line(sbuf, 0) = IF kept > 0 THEN <<pushed[n - kept + 1]>> ELSE <<>>

\* More lines than the scrollback holds were pushed, a line holding X first
\* and one holding Y later: the X line has been evicted and the oldest line
\* kept holds Y.
C29_EvictedOldest ==
    /\ sbuf.max_lines >= 1
    /\ Len(PushedSinceClear(scalls)) > sbuf.max_lines
    /\ PushedSinceClear(scalls)[1].cells[1].character = Ascii.UX
    /\ get_line(sbuf, 0) # <<>>
    /\ get_line(sbuf, 0)[1].cells[1].character = Ascii.UY
    /\ ScrollbackBuffer_len(sbuf) = sbuf.max_lines

\* The parser state call i on the stand-alone terminal left behind.
StateAfterCall(i) ==
    IF i < Len(tcalls) THEN tcalls[i + 1].parser_state ELSE term.parser.state_machine

\* The position, from k on, of the first byte of data that ends an OSC
\* string (BEL, or a backslash that follows ESC), 0 if there is none; before
\* is the byte fed just before data.
RECURSIVE FirstTerminator(_, _, _)
FirstTerminator(data, before, k) ==
    IF k > Len(data) THEN 0
    ELSE IF \/ data[k] = Ascii.BEL
            \/ /\ data[k] = Ascii.BACKSLASH
               /\ (IF k = 1 THEN before ELSE data[k - 1]) = Ascii.ESC
         THEN k
         ELSE FirstTerminator(data, before, k + 1)

\* C30: after ESC ], no byte yields a command until the first terminator
\* (BEL, or ESC immediately followed by backslash); the terminator yields
\* none either, and the byte after it is processed from Ground: a printable
\* byte yields PrintChar.
C30_OscSilentUntilTerminator ==
    \A i \in 1..Len(tcalls) :
       tcalls[i].parser_state = "OscString"
       => LET data == tcalls[i].data
              fed == TermFedFrom(SubSeq(tcalls, 1, i - 1))
              t == FirstTerminator(data, fed[Len(fed)], 1)
              rest == SubSeq(data, t + 1, Len(data))
          IN  IF t = 0
              THEN /\ tcalls[i].commands = <<>>
                   /\ StateAfterCall(i) = "OscString"
              ELSE IF rest = <<>>
              THEN /\ tcalls[i].commands = <<>>
                   /\ StateAfterCall(i) = "Ground"
                   /\ (i < Len(tcalls) /\ tcalls[i + 1].data = <<Ascii.UX>>)
                         => tcalls[i + 1].commands = <<[cmd |-> "PrintChar", ch |-> Ascii.UX]>>
              ELSE (rest[1] >= 32 /\ rest[1] <= 126)
                   => /\ tcalls[i].commands # <<>>
                      /\ Head(tcalls[i].commands) = [cmd |-> "PrintChar", ch |-> rest[1]]

\* ESC ] opened an OSC string, ESC \ ended it, and the X fed next was
\* printed.
C30_PrintedAfterOsc ==
    /\ Len(tcalls) = 3
    /\ tcalls[1].data = <<Ascii.ESC, Ascii.RBRACKET>>
    /\ tcalls[2].parser_state = "OscString"
    /\ tcalls[2].data = <<Ascii.ESC, Ascii.BACKSLASH>>
    /\ tcalls[3].parser_state = "Ground"
    /\ tcalls[3].data = <<Ascii.UX>>
    /\ tcalls[3].commands = <<[cmd |-> "PrintChar", ch |-> Ascii.UX]>>

\* ------------------------------------------------------------------ C31

\* C31: the listeners a dispatch invokes, those registered for the event's
\* own type and those registered for All alike, are invoked in
\* non-increasing priority order, listeners of equal priority in
\* registration order.
C31_DispatchInPriorityOrder ==
    \A n \in 1..Len(hcalls) :
        hcalls[n].op = "dispatch" =>
            \A i, j \in 1..Len(hcalls[n].invoked) :
                i < j =>
                    LET a == hcalls[n].invoked[i]
                        b == hcalls[n].invoked[j]
                    IN  \/ a.priority > b.priority
                        \/ a.priority = b.priority /\ a.id < b.id

\* ------------------------------------------------------------------ C32

\* the chars of the lines in the scrollback before call n
TextsBefore(n) ==
    LET pushed == SelectSeq(SubSeq(scalls, 1, n - 1),
                            LAMBDA c : c.op = "push_line")
        kept == Min(Len(pushed), MaxScrollback)
    IN  [i \in 1..kept |->
            LET line == pushed[Len(pushed) - kept + i].line
            IN  [c \in 1..Len(line.cells) |-> line.cells[c].character]]

\* the occurrences of a pattern in the texts, as (line, start column) pairs
Occurrences(texts, pattern) ==
    {<<l, c>> \in (0..Len(texts)) \X (0..MaxCols) :
        /\ l < Len(texts)
        /\ c + Len(pattern) <= Len(texts[l + 1])
        /\ SubSeq(texts[l + 1], c + 1, c + Len(pattern)) = pattern}

\* C32: ScrollbackBuffer::search(pattern, true) returns normally for every
\* pattern, the empty one included, and for a non-empty pattern returns
\* exactly one match per occurrence, overlapping occurrences included,
\* ordered by line index then start column, with
\* end_col == start_col + the pattern's length.
C32_SearchReturnsEveryOccurrence ==
    \A n \in 1..Len(scalls) :
        scalls[n].op = "search" =>
            /\ scalls[n].result = "Ok"
            /\ scalls[n].pattern # <<>> =>
                  LET m == scalls[n].matches
                      occ == Occurrences(TextsBefore(n), scalls[n].pattern)
                  IN  /\ {<<m[i].line, m[i].start_col>> : i \in 1..Len(m)} = occ
                      /\ Len(m) = Cardinality(occ)
                      /\ \A i \in 1..Len(m) :
                            m[i].end_col = m[i].start_col + Len(scalls[n].pattern)
                      /\ \A i, j \in 1..Len(m) :
                            i < j => \/ m[i].line < m[j].line
                                     \/ /\ m[i].line = m[j].line
                                        /\ m[i].start_col < m[j].start_col

\* ------------------------------------------------------------------ C33

\* the windows of a frame, as a set of ids; ids are handed out in creation
\* order
WindowsOf(f) == DOMAIN f.sashes

\* the window created next after window id among those of the frame,
\* wrapping from the last-created to the first-created
CreatedAfter(f, id) ==
    LET later == {w \in WindowsOf(f) : w > id}
    IN  IF later = {} THEN CHOOSE w \in WindowsOf(f) : \A o \in WindowsOf(f) : w <= o
        ELSE CHOOSE w \in later : \A o \in later : w <= o

\* the window created last before window id, wrapping the other way
CreatedBefore(f, id) ==
    LET earlier == {w \in WindowsOf(f) : w < id}
    IN  IF earlier = {} THEN CHOOSE w \in WindowsOf(f) : \A o \in WindowsOf(f) : w >= o
        ELSE CHOOSE w \in earlier : \A o \in earlier : w >= o

\* C33: focus_next_window moves the focus to the window created immediately
\* after the active one, wrapping from the last-created window to the
\* first-created; focus_previous_window moves it the opposite way.
C33_FocusFollowsCreationOrder ==
    \A n \in 1..Len(fcalls) :
        LET call == fcalls[n]
            after == IF n = Len(fcalls) THEN frame ELSE fcalls[n + 1].before
        IN  call.before.active_sash_id # <<>> =>
               /\ call.op = "focus_next_window" =>
                     get_active_window(after) =
                        <<CreatedAfter(call.before, call.before.active_sash_id[1])>>
               /\ call.op = "focus_previous_window" =>
                     get_active_window(after) =
                        <<CreatedBefore(call.before, call.before.active_sash_id[1])>>

\* ------------------------------------------------------------------ C34

\* C34: whenever the pane has a PTY, the PTY's size() equals the pane's
\* get_size(): right after spawn_process for every initial pane size, and
\* after every successful resize.
C34_PtySizeIsPaneSize ==
    pane.pty.present => pane.pty.size = get_size(pane)

\* ------------------------------------------------------------------ C35

\* the positions saved and not yet restored after the calls cs, oldest first,
\* from the log alone
RECURSIVE PendingSaves(_)
PendingSaves(cs) ==
    IF cs = <<>> THEN <<>>
    ELSE LET before == PendingSaves(SubSeq(cs, 1, Len(cs) - 1))
             call == cs[Len(cs)]
         IN  IF call.op = "save_position" THEN Append(before, call.position)
             ELSE IF call.op = "restore_position" /\ before # <<>>
             THEN SubSeq(before, 1, Len(before) - 1)
             ELSE before

\* C35: save_position / restore_position form a LIFO stack: a restore sets
\* the cursor to the most recently saved position not yet restored, clamped
\* to the current screen size, so nested saves come back in reverse order; a
\* restore with nothing saved leaves the cursor unchanged; neither call
\* changes the screen or the scrollback.
C35_SaveRestoreIsLifo ==
    ( /\ calls # <<>>
      /\ LastCall.op \in {"save_position", "restore_position"} )
    => LET pending == PendingSaves(SubSeq(calls, 1, Len(calls) - 1))
       IN  /\ pane.screen_buffer = prev.screen_buffer
           /\ pane.scrollback = prev.scrollback
           /\ LastCall.op = "save_position" =>
                 pane.cursor.position = prev.cursor.position
           /\ (LastCall.op = "restore_position" /\ pending = <<>>) =>
                 pane.cursor = prev.cursor
           /\ (LastCall.op = "restore_position" /\ pending # <<>>) =>
                 LET saved == pending[Len(pending)]
                 IN  /\ pane.cursor.position.row =
                           Min(saved.row, pane.screen_buffer.height - 1)
                     /\ pane.cursor.position.col =
                           Min(saved.col, pane.screen_buffer.width - 1)

\* two nested saves at different positions, the second restore returning to
\* the position saved first
C35_RestoredOuterSave ==
    /\ Len(calls) = 5
    /\ calls[1].op = "save_position"
    /\ calls[3].op = "save_position"
    /\ calls[3].position # calls[1].position
    /\ calls[4].op = "restore_position"
    /\ calls[5].op = "restore_position"
    /\ pane.cursor.position = calls[1].position
    /\ prev.cursor.position = calls[3].position

\* -------------------------------------------------------------- C36, C37

\* the latest call is a direct insert_lines / delete_lines with the cursor on
\* a row of the screen
LineCallOnScreen(op) ==
    /\ calls # <<>>
    /\ LastCall.op = op
    /\ prev.cursor.position.row < prev.screen_buffer.height

\* the whole screen is dirty
WholeScreenDirty(sb) ==
    /\ sb.dirty_regions.all_dirty
    /\ \A i \in 0..(sb.height - 1) : is_line_dirty(sb.dirty_regions, i)

\* C36: insert_lines(n) with the cursor on row r < height and
\* m = min(n, height - r): rows r..r+m-1 are blank, each former row i in
\* r..height-m-1 is now row i+m, the former bottom m rows are gone and not in
\* the scrollback, rows above r are unchanged, there are height rows, and the
\* whole screen is dirty.
C36_InsertLinesShiftsDown ==
    LineCallOnScreen("insert_lines") =>
        LET r == prev.cursor.position.row
            height == prev.screen_buffer.height
            m == Min(LastCall.count, height - r)
            was == prev.screen_buffer.lines
            now == pane.screen_buffer.lines
        IN  /\ Len(now) = height
            /\ pane.screen_buffer.height = height
            /\ \A i \in 0..(r - 1) : now[i + 1] = was[i + 1]
            /\ \A i \in r..(r + m - 1) : now[i + 1] = Line_new(prev.screen_buffer.width)
            /\ \A i \in r..(height - m - 1) : now[i + m + 1] = was[i + 1]
            /\ pane.scrollback = prev.scrollback
            /\ WholeScreenDirty(pane.screen_buffer)

\* one line inserted on the first of two rows of text: the first row's text
\* is now on the second row and the second row's text is gone
C36_InsertedAboveText ==
    /\ LineCallOnScreen("insert_lines")
    /\ prev.cursor.position.row = 0
    /\ prev.screen_buffer.height = 2
    /\ LastCall.count = 1
    /\ CellAt(prev, 0, 0).character = Ascii.UX
    /\ CellAt(prev, 1, 1).character = Ascii.UY
    /\ CellAt(pane, 1, 0).character = Ascii.UX
    /\ Line_is_empty(pane.screen_buffer.lines[1])

\* C37: delete_lines(n) with the cursor on row r < height and
\* m = min(n, height - r): each former row i in r+m..height-1 is now row i-m,
\* the bottom m rows are blank, the deleted rows are gone and not in the
\* scrollback, rows above r are unchanged, there are height rows, and the
\* whole screen is dirty.
C37_DeleteLinesShiftsUp ==
    LineCallOnScreen("delete_lines") =>
        LET r == prev.cursor.position.row
            height == prev.screen_buffer.height
            m == Min(LastCall.count, height - r)
            was == prev.screen_buffer.lines
            now == pane.screen_buffer.lines
        IN  /\ Len(now) = height
            /\ pane.screen_buffer.height = height
            /\ \A i \in 0..(r - 1) : now[i + 1] = was[i + 1]
            /\ \A i \in (r + m)..(height - 1) : now[i - m + 1] = was[i + 1]
            /\ \A i \in (height - m)..(height - 1) :
                  now[i + 1] = Line_new(prev.screen_buffer.width)
            /\ pane.scrollback = prev.scrollback
            /\ WholeScreenDirty(pane.screen_buffer)

\* one line deleted on the first of two rows of text: the second row's text
\* is now on the first row and the second row is blank
C37_DeletedFirstRowOfText ==
    /\ LineCallOnScreen("delete_lines")
    /\ prev.cursor.position.row = 0
    /\ prev.screen_buffer.height = 2
    /\ LastCall.count = 1
    /\ CellAt(prev, 0, 0).character = Ascii.UX
    /\ CellAt(prev, 1, 1).character = Ascii.UY
    /\ CellAt(pane, 0, 1).character = Ascii.UY
    /\ Line_is_empty(pane.screen_buffer.lines[2])

\* ------------------------------------------------------------------ C38

\* the SGR codes set_graphics_attributes knows
SgrCodes == (0..9) \cup (21..25) \cup (27..29)

\* C38: an SGR parameter whose written value is none of the codes 0-9, 21-25,
\* 27-29, values above 255 such as 256 and 257 included, leaves
\* current_attributes unchanged: it is not reduced modulo 256 into code 0 or
\* 1; and a cursor-movement count above 65535 is not reduced modulo 65536, so
\* it takes the cursor to the bottom row.  The empty field after the
\* separator may count as a parameter 0, so a reset of the attributes is
\* accepted too.
C38_LargeParametersNotReduced ==
    /\ \A value \in SgrValues \ SgrCodes :
          LastOutputIs(SgrOf(value)) =>
             pane.modes.current_attributes
                \in {prev.modes.current_attributes, CellAttributes_default}
    /\ \A count \in DownCounts :
          ( /\ LastOutputIs(DownBy(count))
            /\ count > U16Modulus - 1
            /\ CursorOnScreen(prev) )
          => pane.cursor.position.row = pane.screen_buffer.height - 1

\* ------------------------------------------------------------------ C39

\* C39: ClearScreen(All) clears every cell and moves the cursor to row 0,
\* column 0; ClearScreen(ToEnd), ClearScreen(ToBeginning) and every ClearLine
\* leave the cursor position unchanged; no clear adds a line to the
\* scrollback.
C39_OnlyClearAllHomesCursor ==
    /\ LastCommandIs([cmd |-> "ClearScreen", clear_type |-> "All"]) =>
          /\ result = "Ok"
          /\ pane.cursor.position.row = 0
          /\ pane.cursor.position.col = 0
          /\ \A i \in 1..Len(pane.screen_buffer.lines) :
                Line_is_empty(pane.screen_buffer.lines[i])
          /\ pane.scrollback = prev.scrollback
    /\ \A command \in ClearCommands :
          LastCommandIs(command) =>
             /\ pane.cursor.position = prev.cursor.position
             /\ pane.scrollback = prev.scrollback

\* the whole screen was cleared with text on it and the cursor away from the
\* top left corner
C39_ClearAllHomedCursor ==
    /\ LastCommandIs([cmd |-> "ClearScreen", clear_type |-> "All"])
    /\ CellAt(prev, 0, 0).character = Ascii.UX
    /\ prev.cursor.position.col > 0
    /\ pane.cursor.position.row = 0
    /\ pane.cursor.position.col = 0
    /\ CellAt(pane, 0, 0) = Cell_default

\* ------------------------------------------------------------------ C40

\* active_tab_index() is Some(i) with i < tab_count() exactly when there is
\* a tab
ActiveTabIsValid ==
    IF tab_count(tab_manager) > 0
    THEN /\ active_tab_index(tab_manager) # <<>>
         /\ active_tab_index(tab_manager)[1] < tab_count(tab_manager)
    ELSE active_tab_index(tab_manager) = <<>>

\* C40: after any sequence of add_tab, remove_tab, move_tab, set_active_tab,
\* next_tab and previous_tab calls active_tab_index() is Some(i) with
\* i < tab_count() exactly when tab_count() > 0; and add_tab and move_tab
\* never change the pane get_active_pane() returns when a tab was active, for
\* every NewTabPosition.
C40_ActiveTabStaysValidAndPut ==
    /\ ActiveTabIsValid
    /\ ( /\ tmcalls # <<>>
         /\ tmcalls[Len(tmcalls)].op \in {"add_tab", "move_tab"}
         /\ tmcalls[Len(tmcalls)].active_pane # <<>> )
       => get_active_pane(tab_manager) = tmcalls[Len(tmcalls)].active_pane

====
